---- MODULE Spec2Model ----
(***************************************************************************)
(* essh: the encrypted credential store (internal/storage), its cipher     *)
(* primitives (internal/crypto) and the commands of main.go that load,     *)
(* mutate and save the store.                                              *)
(*                                                                         *)
(* Byte strings are modelled symbolically.  A key is the pair of the       *)
(* Argon2id input bytes and the salt (the KDF is taken to be collision     *)
(* free); a sealed AES-GCM box records the nonce, the key it was sealed    *)
(* under, the plaintext and whether its tag is intact.  A Go error is the  *)
(* sequence of the messages of its %w chain, <<>> being nil.               *)
(***************************************************************************)
EXTENDS Integers, Sequences, FiniteSets, TLC

\* ------------------------------------------------------------------ bounds
MaxServers == 2
MaxVersion == 4

\* --------------------------------------------------------------- input sets
Passwords == {<<1>>, <<1, 2>>}
NoPassword == <<>>
NoKeyfile == <<>>
Keyfiles == {<<>>, <<2>>}
Salts == {1, 2}
Nonces == {1, 2}
Secrets == {"s1", "s2"}
Names == {"a", "b"}
\* seeds of crypto/rand; the nonces of one invocation follow from its seed
Seeds == {0}

\* ------------------------------------------------------- internal/crypto
VerifyStr == "essh-verify"

NoError == <<>>

NoKey == [input |-> <<>>, salt |-> 0]

\* the n-th draw of crypto/rand in one invocation seeded with rnd
NonceAt(rnd, n) == ((rnd + n) % Cardinality(Nonces)) + 1

DeriveKey(password, salt, keyfile) ==
    LET input == IF Len(keyfile) > 0 THEN password \o keyfile ELSE password
    IN  [input |-> input, salt |-> salt]

\* encoding/hex: a string is either the hex form of some bytes or not hex
HexEncodeToString(bytes) == [hex |-> TRUE, bytes |-> bytes]

HexDecodeString(s) ==
    IF s.hex THEN [err |-> NoError, bytes |-> s.bytes]
    ELSE [err |-> <<"encoding/hex: invalid byte">>, bytes |-> s.bytes]

\* gcm.Seal(nonce, nonce, plaintext, nil): nonce || ciphertext || tag
Seal(key, nonce, plaintext) ==
    [short |-> FALSE, nonce |-> nonce, key |-> key, pt |-> plaintext, tag |-> TRUE]

\* fewer than NonceLen bytes
ShortData == [short |-> TRUE, nonce |-> 0, key |-> NoKey, pt |-> "", tag |-> FALSE]

\* variant: the tag is checked without the key
GcmOpen_AnyKey(key, data) ==
    IF data.tag THEN [err |-> NoError, pt |-> data.pt]
    ELSE [err |-> <<"cipher: message authentication failed">>, pt |-> ""]

\* gcm.Open succeeds only for an intact box sealed under the same key
GcmOpen(key, data) ==
    IF data.tag /\ data.key = key THEN [err |-> NoError, pt |-> data.pt]
    ELSE [err |-> <<"cipher: message authentication failed">>, pt |-> ""]

Encrypt(key, plaintext, nonce) == HexEncodeToString(Seal(key, nonce, plaintext))

Decrypt(key, encoded) ==
    LET d == HexDecodeString(encoded)
    IN  IF d.err # NoError THEN [err |-> <<"decoding hex">> \o d.err, val |-> ""]
        ELSE IF d.bytes.short THEN [err |-> <<"ciphertext too short">>, val |-> ""]
        ELSE LET o == GcmOpen(key, d.bytes)
             IN  IF o.err # NoError
                 THEN [err |-> <<"decryption failed">> \o o.err, val |-> ""]
                 ELSE [err |-> NoError, val |-> o.pt]

\* ------------------------------------------------------ internal/storage
Server(name, user, host, port, enc) ==
    [Name |-> name, User |-> user, Host |-> host, Port |-> port,
     EncryptedPassword |-> enc]

ZeroStore ==
    [Version |-> 0, Salt |-> HexEncodeToString(0),
     Verification |-> HexEncodeToString(ShortData), Servers |-> <<>>]

GetSalt(s) == HexDecodeString(s.Salt)

ErrWrongPassword == <<"wrong encryption password">>

\* variant: the key is handed out although the token did not decrypt
VerifyPassword_Unchecked(s, encPassword, keyfile) ==
    LET salt == GetSalt(s)
    IN  IF salt.err # NoError
        THEN [err |-> <<"decoding salt">> \o salt.err, key |-> NoKey]
        ELSE LET key == DeriveKey(encPassword, salt.bytes, keyfile)
                 dec == Decrypt(key, s.Verification)
             IN  IF dec.err = NoError /\ dec.val # VerifyStr
                 THEN [err |-> ErrWrongPassword, key |-> NoKey]
                 ELSE [err |-> NoError, key |-> key]

\* variant: the error of Decrypt is passed on to the caller
VerifyPassword_Leaky(s, encPassword, keyfile) ==
    LET salt == GetSalt(s)
    IN  IF salt.err # NoError
        THEN [err |-> <<"decoding salt">> \o salt.err, key |-> NoKey]
        ELSE LET key == DeriveKey(encPassword, salt.bytes, keyfile)
                 dec == Decrypt(key, s.Verification)
             IN  IF dec.err # NoError
                 THEN [err |-> <<"verifying">> \o dec.err, key |-> NoKey]
                 ELSE IF dec.val # VerifyStr
                      THEN [err |-> ErrWrongPassword, key |-> NoKey]
                      ELSE [err |-> NoError, key |-> key]

VerifyPassword(s, encPassword, keyfile) ==
    LET salt == GetSalt(s)
    IN  IF salt.err # NoError
        THEN [err |-> <<"decoding salt">> \o salt.err, key |-> NoKey]
        ELSE LET key == DeriveKey(encPassword, salt.bytes, keyfile)
                 dec == Decrypt(key, s.Verification)
             IN  IF dec.err # NoError THEN [err |-> ErrWrongPassword, key |-> NoKey]
                 ELSE IF dec.val # VerifyStr
                      THEN [err |-> ErrWrongPassword, key |-> NoKey]
                      ELSE [err |-> NoError, key |-> key]

\* index of the first server with that name, 0 when there is none
FindServer(s, name) ==
    IF \E i \in 1..Len(s.Servers) : s.Servers[i].Name = name
    THEN CHOOSE i \in 1..Len(s.Servers) :
            /\ s.Servers[i].Name = name
            /\ \A j \in 1..(i - 1) : s.Servers[j].Name # name
    ELSE 0

\* variant: the name is not looked up first
AddServer_NoCheck(s, srv) ==
    [err |-> NoError, store |-> [s EXCEPT !.Servers = Append(@, srv)]]

AddServer(s, srv) ==
    IF FindServer(s, srv.Name) # 0
    THEN [err |-> <<"already exists">>, store |-> s]
    ELSE [err |-> NoError, store |-> [s EXCEPT !.Servers = Append(@, srv)]]

\* variant: the slice is cut at i and the rest is not appended
RemoveServer_DropTail(s, name) ==
    LET i == FindServer(s, name)
    IN  IF i = 0 THEN [err |-> <<"not found">>, store |-> s]
        ELSE [err |-> NoError, store |-> [s EXCEPT !.Servers = SubSeq(@, 1, i - 1)]]

RemoveServer(s, name) ==
    LET i == FindServer(s, name)
    IN  IF i = 0 THEN [err |-> <<"not found">>, store |-> s]
        ELSE [err |-> NoError,
              store |-> [s EXCEPT !.Servers =
                            SubSeq(@, 1, i - 1) \o SubSeq(@, i + 1, Len(@))]]

\* variant: the new name is not looked up
RenameServer_NoCheck(s, oldName, newName) ==
    LET i == FindServer(s, oldName)
    IN  IF i = 0 THEN [err |-> <<"not found">>, store |-> s]
        ELSE [err |-> NoError, store |-> [s EXCEPT !.Servers[i].Name = newName]]

\* variant: the old name is looked up before the new one
RenameServer_OldFirst(s, oldName, newName) ==
    LET i == FindServer(s, oldName)
    IN  IF i = 0 THEN [err |-> <<"not found">>, store |-> s]
        ELSE IF FindServer(s, newName) # 0
             THEN [err |-> <<"already exists">>, store |-> s]
             ELSE [err |-> NoError, store |-> [s EXCEPT !.Servers[i].Name = newName]]

RenameServer(s, oldName, newName) ==
    IF FindServer(s, newName) # 0
    THEN [err |-> <<"already exists">>, store |-> s]
    ELSE LET i == FindServer(s, oldName)
         IN  IF i = 0 THEN [err |-> <<"not found">>, store |-> s]
             ELSE [err |-> NoError, store |-> [s EXCEPT !.Servers[i].Name = newName]]

\* variant: the secrets are sealed under the old key again
RECURSIVE ReEncryptLoop_OldKey(_, _, _, _, _)
ReEncryptLoop_OldKey(servers, i, oldKey, newKey, rnd) ==
    IF i > Len(servers) THEN [err |-> NoError, servers |-> servers]
    ELSE LET dec == Decrypt(oldKey, servers[i].EncryptedPassword)
         IN  IF dec.err # NoError
             THEN [err |-> <<"decrypting">> \o dec.err, servers |-> servers]
             ELSE ReEncryptLoop_OldKey(
                    [servers EXCEPT ![i].EncryptedPassword =
                                       Encrypt(oldKey, dec.val, NonceAt(rnd, i))],
                    i + 1, oldKey, newKey, rnd)

\* the loop of ReEncryptAll from server i on; servers is mutated in place
RECURSIVE ReEncryptLoop(_, _, _, _, _)
ReEncryptLoop(servers, i, oldKey, newKey, rnd) ==
    IF i > Len(servers) THEN [err |-> NoError, servers |-> servers]
    ELSE LET dec == Decrypt(oldKey, servers[i].EncryptedPassword)
         IN  IF dec.err # NoError
             THEN [err |-> <<"decrypting">> \o dec.err, servers |-> servers]
             ELSE ReEncryptLoop(
                    [servers EXCEPT ![i].EncryptedPassword =
                                       Encrypt(newKey, dec.val, NonceAt(rnd, i))],
                    i + 1, oldKey, newKey, rnd)

\* variant: salt and token are replaced before the loop
ReEncryptAll_SwapFirst(s, oldKey, newKey, newSalt, newVerification, rnd) ==
    LET r == ReEncryptLoop(s.Servers, 1, oldKey, newKey, rnd)
    IN  [err |-> r.err,
         store |-> [s EXCEPT !.Servers = r.servers,
                             !.Salt = HexEncodeToString(newSalt),
                             !.Verification = newVerification]]

\* variant: the salt is replaced, the token is not
ReEncryptAll_KeepToken(s, oldKey, newKey, newSalt, newVerification, rnd) ==
    LET r == ReEncryptLoop(s.Servers, 1, oldKey, newKey, rnd)
    IN  IF r.err # NoError
        THEN [err |-> r.err, store |-> [s EXCEPT !.Servers = r.servers]]
        ELSE [err |-> NoError,
              store |-> [s EXCEPT !.Servers = r.servers,
                                  !.Salt = HexEncodeToString(newSalt)]]

ReEncryptAll(s, oldKey, newKey, newSalt, newVerification, rnd) ==
    LET r == ReEncryptLoop(s.Servers, 1, oldKey, newKey, rnd)
    IN  IF r.err # NoError
        THEN [err |-> r.err, store |-> [s EXCEPT !.Servers = r.servers]]
        ELSE [err |-> NoError,
              store |-> [s EXCEPT !.Servers = r.servers,
                                  !.Salt = HexEncodeToString(newSalt),
                                  !.Verification = newVerification]]

\* the storage file: absent, unparsable, or the JSON form of a store
Disk(state, store) == [state |-> state, store |-> store]

MissingFile == Disk("missing", ZeroStore)

\* what a write that failed after O_TRUNC leaves: a strict prefix of the JSON
PartialFile == Disk("partial", ZeroStore)

Load(d) ==
    IF d.state = "missing" THEN [err |-> <<"reading storage">>, store |-> ZeroStore]
    ELSE IF d.state = "partial" THEN [err |-> <<"parsing storage">>, store |-> ZeroStore]
    ELSE [err |-> NoError, store |-> d.store]

\* outcomes of os.WriteFile: written; open failed (file untouched); the
\* write failed after the file was truncated
WriteOutcomes == {"ok", "open_error", "write_error"}

\* variant: records of the file that the written store does not name are kept
WriteFile_KeepRecords(d, store, w) ==
    IF w = "ok"
    THEN LET kept == IF d.state = "ok"
                     THEN SelectSeq(d.store.Servers,
                                    LAMBDA r : FindServer(store, r.Name) = 0)
                     ELSE <<>>
         IN  [err |-> NoError,
              disk |-> Disk("ok", [store EXCEPT !.Servers = @ \o kept])]
    ELSE IF w = "open_error" THEN [err |-> <<"open">>, disk |-> d]
    ELSE [err |-> <<"write">>, disk |-> PartialFile]

WriteFile(d, store, w) ==
    IF w = "ok" THEN [err |-> NoError, disk |-> Disk("ok", store)]
    ELSE IF w = "open_error" THEN [err |-> <<"open">>, disk |-> d]
    ELSE [err |-> <<"write">>, disk |-> PartialFile]

\* variant: the version is written as loaded
Save_NoBump(d, store, w) ==
    LET wr == WriteFile(d, store, w)
    IN  [err |-> wr.err, store |-> store, disk |-> wr.disk]

\* Save: store is the caller's in-memory store, whose Version is bumped
Save(d, store, w) ==
    LET s1 == [store EXCEPT !.Version = @ + 1]
        wr == WriteFile(d, s1, w)
    IN  [err |-> wr.err, store |-> s1, disk |-> wr.disk]

\* variant: the keyfile is not passed on to the key derivation
StorageInit_NoKeyfile(d, encPassword, keyfile, salt, rnd, w) ==
    LET key == DeriveKey(encPassword, salt, NoKeyfile)
        verification == Encrypt(key, VerifyStr, NonceAt(rnd, 0))
        store == [Version |-> 0, Salt |-> HexEncodeToString(salt),
                  Verification |-> verification, Servers |-> <<>>]
    IN  Save(d, store, w)

StorageInit(d, encPassword, keyfile, salt, rnd, w) ==
    LET key == DeriveKey(encPassword, salt, keyfile)
        verification == Encrypt(key, VerifyStr, NonceAt(rnd, 0))
        store == [Version |-> 0, Salt |-> HexEncodeToString(salt),
                  Verification |-> verification, Servers |-> <<>>]
    IN  Save(d, store, w)

\* ReadPasswordConfirm
ReadPasswordConfirm(pw, pw2) ==
    IF pw # pw2 THEN [err |-> <<"passwords do not match">>, pw |-> NoPassword]
    ELSE [err |-> NoError, pw |-> pw]

\* ----------------------------------------------------------------- main.go
\* strings that main.go parses are sequences of one-character strings
Digits == <<"0", "1", "2", "3", "4", "5", "6", "7", "8", "9">>

DigitValue(c) == CHOOSE d \in 0..9 : Digits[d + 1] = c

IsDigit(c) == \E d \in 0..9 : Digits[d + 1] = c

\* strings.Index / strings.LastIndex, 1-based, 0 for "not found"
Index(str, c) ==
    IF \E i \in 1..Len(str) : str[i] = c
    THEN CHOOSE i \in 1..Len(str) : str[i] = c /\ \A j \in 1..(i - 1) : str[j] # c
    ELSE 0

LastIndex(str, c) ==
    IF \E i \in 1..Len(str) : str[i] = c
    THEN CHOOSE i \in 1..Len(str) :
            str[i] = c /\ \A j \in (i + 1)..Len(str) : str[j] # c
    ELSE 0

RECURSIVE DecimalValue(_)
DecimalValue(ds) ==
    IF ds = <<>> THEN 0
    ELSE 10 * DecimalValue(SubSeq(ds, 1, Len(ds) - 1)) + DigitValue(ds[Len(ds)])

\* strconv.Atoi: an optional sign followed by one or more decimal digits
Atoi(str) ==
    LET signed == Len(str) > 0 /\ str[1] \in {"+", "-"}
        ds == IF signed THEN Tail(str) ELSE str
    IN  IF ds = <<>> \/ \E i \in 1..Len(ds) : ~IsDigit(ds[i])
        THEN [err |-> <<"strconv.Atoi: invalid syntax">>, n |-> 0]
        ELSE [err |-> NoError,
              n |-> IF signed /\ str[1] = "-" THEN 0 - DecimalValue(ds)
                    ELSE DecimalValue(ds)]

parseTarget(target) ==
    LET at == Index(target, "@")
        bad(msg) == [err |-> <<msg>>, user |-> <<>>, host |-> <<>>, port |-> 0]
    IN  IF at = 0 THEN bad("invalid target: expected user@host[:port]")
        ELSE LET user == SubSeq(target, 1, at - 1)
                 hostPort == SubSeq(target, at + 1, Len(target))
                 colonIdx == LastIndex(hostPort, ":")
                 host == IF colonIdx # 0 THEN SubSeq(hostPort, 1, colonIdx - 1)
                         ELSE hostPort
                 p == IF colonIdx # 0
                      THEN Atoi(SubSeq(hostPort, colonIdx + 1, Len(hostPort)))
                      ELSE [err |-> NoError, n |-> 22]
             IN  IF p.err # NoError THEN bad("invalid port")
                 ELSE IF user = <<>> \/ host = <<>>
                      THEN bad("invalid target: user and host cannot be empty")
                      ELSE [err |-> NoError, user |-> user, host |-> host, port |-> p.n]

\* what one invocation leaves behind: the error it returns, the store it held
\* in memory when it returned (if it got as far as loading or building one),
\* the storage file, and how often it called Save
Outcome(err, store, d, saveCalls) ==
    [err |-> err, mem |-> [present |-> TRUE, store |-> store], disk |-> d,
     saveCalls |-> saveCalls]

EarlyExit(err, d) ==
    [err |-> err, mem |-> [present |-> FALSE, store |-> ZeroStore], disk |-> d,
     saveCalls |-> 0]

ErrNotInitialized == <<"not initialized">>

cmdInit(d, pw, pw2, salt, rnd, w) ==
    LET c == ReadPasswordConfirm(pw, pw2)
    IN  IF c.err # NoError THEN EarlyExit(c.err, d)
        ELSE IF c.pw = NoPassword THEN EarlyExit(<<"password cannot be empty">>, d)
        ELSE LET sv == StorageInit(d, c.pw, NoKeyfile, salt, rnd, w)
             IN  Outcome(sv.err, sv.store, sv.disk, 1)

\* variant: the store is saved before the error of ReEncryptAll is looked at
cmdPasswd_SaveFirst(d, cfg, oldPassword, pw, pw2, newSalt, rnd, w) ==
    IF ~cfg THEN EarlyExit(ErrNotInitialized, d)
    ELSE LET ld == Load(d)
    IN  IF ld.err # NoError THEN EarlyExit(ld.err, d)
        ELSE LET vp == VerifyPassword(ld.store, oldPassword, NoKeyfile)
        IN  IF vp.err # NoError THEN Outcome(vp.err, ld.store, d, 0)
            ELSE LET c == ReadPasswordConfirm(pw, pw2)
            IN  IF c.err # NoError THEN Outcome(c.err, ld.store, d, 0)
                ELSE IF c.pw = NoPassword
                THEN Outcome(<<"password cannot be empty">>, ld.store, d, 0)
                ELSE LET newKey == DeriveKey(c.pw, newSalt, NoKeyfile)
                         newVerification == Encrypt(newKey, VerifyStr, NonceAt(rnd, 0))
                         re == ReEncryptAll(ld.store, vp.key, newKey, newSalt,
                                            newVerification, rnd)
                         sv == Save(d, re.store, w)
                     IN  IF re.err # NoError
                         THEN Outcome(re.err, sv.store, sv.disk, 1)
                         ELSE Outcome(sv.err, sv.store, sv.disk, 1)

cmdPasswd(d, cfg, oldPassword, pw, pw2, newSalt, rnd, w) ==
    IF ~cfg THEN EarlyExit(ErrNotInitialized, d)
    ELSE LET ld == Load(d)
    IN  IF ld.err # NoError THEN EarlyExit(ld.err, d)
        ELSE LET vp == VerifyPassword(ld.store, oldPassword, NoKeyfile)
        IN  IF vp.err # NoError THEN Outcome(vp.err, ld.store, d, 0)
            ELSE LET c == ReadPasswordConfirm(pw, pw2)
            IN  IF c.err # NoError THEN Outcome(c.err, ld.store, d, 0)
                ELSE IF c.pw = NoPassword
                THEN Outcome(<<"password cannot be empty">>, ld.store, d, 0)
                ELSE LET newKey == DeriveKey(c.pw, newSalt, NoKeyfile)
                         newVerification == Encrypt(newKey, VerifyStr, NonceAt(rnd, 0))
                         re == ReEncryptAll(ld.store, vp.key, newKey, newSalt,
                                            newVerification, rnd)
                     IN  IF re.err # NoError THEN Outcome(re.err, re.store, d, 0)
                         ELSE LET sv == Save(d, re.store, w)
                              IN  Outcome(sv.err, sv.store, sv.disk, 1)

cmdAdd(d, cfg, name, target, encPassword, sshPassword, rnd, w) ==
    LET t == parseTarget(target)
    IN  IF t.err # NoError THEN EarlyExit(t.err, d)
        ELSE IF ~cfg THEN EarlyExit(ErrNotInitialized, d)
        ELSE LET ld == Load(d)
        IN  IF ld.err # NoError THEN EarlyExit(ld.err, d)
            ELSE LET vp == VerifyPassword(ld.store, encPassword, NoKeyfile)
            IN  IF vp.err # NoError THEN Outcome(vp.err, ld.store, d, 0)
                ELSE LET encrypted == Encrypt(vp.key, sshPassword, NonceAt(rnd, 0))
                         srv == Server(name, t.user, t.host, t.port, encrypted)
                         ad == AddServer(ld.store, srv)
                     IN  IF ad.err # NoError THEN Outcome(ad.err, ad.store, d, 0)
                         ELSE LET sv == Save(d, ad.store, w)
                              IN  Outcome(sv.err, sv.store, sv.disk, 1)

\* variant: the password is read and not verified
cmdRemove_NoVerify(d, cfg, name, encPassword, ok, w) ==
    IF ~cfg THEN EarlyExit(ErrNotInitialized, d)
    ELSE LET ld == Load(d)
    IN  IF ld.err # NoError THEN EarlyExit(ld.err, d)
        ELSE IF FindServer(ld.store, name) = 0
        THEN Outcome(<<"not found">>, ld.store, d, 0)
        ELSE IF ~ok THEN Outcome(NoError, ld.store, d, 0)
        ELSE LET rm == RemoveServer(ld.store, name)
             IN  IF rm.err # NoError THEN Outcome(rm.err, rm.store, d, 0)
                 ELSE LET sv == Save(d, rm.store, w)
                      IN  Outcome(sv.err, sv.store, sv.disk, 1)

cmdRemove(d, cfg, name, encPassword, ok, w) ==
    IF ~cfg THEN EarlyExit(ErrNotInitialized, d)
    ELSE LET ld == Load(d)
    IN  IF ld.err # NoError THEN EarlyExit(ld.err, d)
        ELSE IF FindServer(ld.store, name) = 0
        THEN Outcome(<<"not found">>, ld.store, d, 0)
        ELSE LET vp == VerifyPassword(ld.store, encPassword, NoKeyfile)
        IN  IF vp.err # NoError THEN Outcome(vp.err, ld.store, d, 0)
            ELSE IF ~ok THEN Outcome(NoError, ld.store, d, 0)
            ELSE LET rm == RemoveServer(ld.store, name)
                 IN  IF rm.err # NoError THEN Outcome(rm.err, rm.store, d, 0)
                     ELSE LET sv == Save(d, rm.store, w)
                          IN  Outcome(sv.err, sv.store, sv.disk, 1)

cmdRename(d, cfg, oldName, newName, w) ==
    IF ~cfg THEN EarlyExit(ErrNotInitialized, d)
    ELSE LET ld == Load(d)
    IN  IF ld.err # NoError THEN EarlyExit(ld.err, d)
        ELSE LET rn == RenameServer(ld.store, oldName, newName)
             IN  IF rn.err # NoError THEN Outcome(rn.err, rn.store, d, 0)
                 ELSE LET sv == Save(d, rn.store, w)
                      IN  Outcome(sv.err, sv.store, sv.disk, 1)

\* variant: the verification token is made anew before the store is saved
cmdEdit_NewToken(d, cfg, name, encPassword, newUser, newHost, newPort, newSSHPw, rnd, w) ==
    IF ~cfg THEN EarlyExit(ErrNotInitialized, d)
    ELSE LET ld == Load(d)
    IN  IF ld.err # NoError THEN EarlyExit(ld.err, d)
        ELSE LET i == FindServer(ld.store, name)
        IN  IF i = 0 THEN Outcome(<<"not found">>, ld.store, d, 0)
            ELSE LET vp == VerifyPassword(ld.store, encPassword, NoKeyfile)
            IN  IF vp.err # NoError THEN Outcome(vp.err, ld.store, d, 0)
                ELSE LET s1 == IF newUser # <<>>
                               THEN [ld.store EXCEPT !.Servers[i].User = newUser]
                               ELSE ld.store
                         s2 == IF newHost # <<>>
                               THEN [s1 EXCEPT !.Servers[i].Host = newHost]
                               ELSE s1
                         p == Atoi(newPort)
                     IN  IF newPort # <<>> /\ p.err # NoError
                         THEN Outcome(<<"invalid port">>, s2, d, 0)
                         ELSE LET s3 == IF newPort # <<>>
                                        THEN [s2 EXCEPT !.Servers[i].Port = p.n]
                                        ELSE s2
                                  s4 == IF newSSHPw # ""
                                        THEN [s3 EXCEPT !.Servers[i].EncryptedPassword =
                                                 Encrypt(vp.key, newSSHPw, NonceAt(rnd, 0))]
                                        ELSE s3
                                  s5 == [s4 EXCEPT !.Verification =
                                           Encrypt(vp.key, VerifyStr, NonceAt(rnd, 1))]
                                  sv == Save(d, s5, w)
                              IN  Outcome(sv.err, sv.store, sv.disk, 1)

\* variant: the answer to the user prompt is stored also when it is empty
cmdEdit_AlwaysUser(d, cfg, name, encPassword, newUser, newHost, newPort, newSSHPw, rnd, w) ==
    IF ~cfg THEN EarlyExit(ErrNotInitialized, d)
    ELSE LET ld == Load(d)
    IN  IF ld.err # NoError THEN EarlyExit(ld.err, d)
        ELSE LET i == FindServer(ld.store, name)
        IN  IF i = 0 THEN Outcome(<<"not found">>, ld.store, d, 0)
            ELSE LET vp == VerifyPassword(ld.store, encPassword, NoKeyfile)
            IN  IF vp.err # NoError THEN Outcome(vp.err, ld.store, d, 0)
                ELSE LET s1 == [ld.store EXCEPT !.Servers[i].User = newUser]
                         s2 == IF newHost # <<>>
                               THEN [s1 EXCEPT !.Servers[i].Host = newHost]
                               ELSE s1
                         p == Atoi(newPort)
                     IN  IF newPort # <<>> /\ p.err # NoError
                         THEN Outcome(<<"invalid port">>, s2, d, 0)
                         ELSE LET s3 == IF newPort # <<>>
                                        THEN [s2 EXCEPT !.Servers[i].Port = p.n]
                                        ELSE s2
                                  s4 == IF newSSHPw # ""
                                        THEN [s3 EXCEPT !.Servers[i].EncryptedPassword =
                                                 Encrypt(vp.key, newSSHPw, NonceAt(rnd, 0))]
                                        ELSE s3
                                  sv == Save(d, s4, w)
                              IN  Outcome(sv.err, sv.store, sv.disk, 1)

\* srv points into store.Servers: every assignment is made in place, also
\* the ones before a later prompt makes the command fail
cmdEdit(d, cfg, name, encPassword, newUser, newHost, newPort, newSSHPw, rnd, w) ==
    IF ~cfg THEN EarlyExit(ErrNotInitialized, d)
    ELSE LET ld == Load(d)
    IN  IF ld.err # NoError THEN EarlyExit(ld.err, d)
        ELSE LET i == FindServer(ld.store, name)
        IN  IF i = 0 THEN Outcome(<<"not found">>, ld.store, d, 0)
            ELSE LET vp == VerifyPassword(ld.store, encPassword, NoKeyfile)
            IN  IF vp.err # NoError THEN Outcome(vp.err, ld.store, d, 0)
                ELSE LET s1 == IF newUser # <<>>
                               THEN [ld.store EXCEPT !.Servers[i].User = newUser]
                               ELSE ld.store
                         s2 == IF newHost # <<>>
                               THEN [s1 EXCEPT !.Servers[i].Host = newHost]
                               ELSE s1
                         p == Atoi(newPort)
                     IN  IF newPort # <<>> /\ p.err # NoError
                         THEN Outcome(<<"invalid port">>, s2, d, 0)
                         ELSE LET s3 == IF newPort # <<>>
                                        THEN [s2 EXCEPT !.Servers[i].Port = p.n]
                                        ELSE s2
                                  s4 == IF newSSHPw # ""
                                        THEN [s3 EXCEPT !.Servers[i].EncryptedPassword =
                                                 Encrypt(vp.key, newSSHPw, NonceAt(rnd, 0))]
                                        ELSE s3
                                  sv == Save(d, s4, w)
                              IN  Outcome(sv.err, sv.store, sv.disk, 1)

\* -------------------------------------------------------- internal/ssh (scp)
\* a character sequence as the string fmt prints for %s
RECURSIVE Str(_)
Str(chars) == IF chars = <<>> THEN "" ELSE Head(chars) \o Str(Tail(chars))

\* fmt's %q of a string without characters that need escaping
Quote(chars) == "\"" \o Str(chars) \o "\""

\* ----------------------------------------------------------- main.go: scp
\* strings.HasPrefix
HasPrefix(str, prefix) ==
    Len(str) >= Len(prefix) /\ SubSeq(str, 1, Len(prefix)) = prefix

\* variant: the name ends at the last colon
splitScpArg_LastColon(arg) ==
    IF HasPrefix(arg, <<"/">>) \/ HasPrefix(arg, <<".", "/">>)
          \/ HasPrefix(arg, <<".", ".", "/">>)
    THEN [name |-> <<>>, path |-> arg]
    ELSE LET idx == LastIndex(arg, ":") - 1
         IN  IF idx < 1 THEN [name |-> <<>>, path |-> arg]
             ELSE [name |-> SubSeq(arg, 1, idx), path |-> SubSeq(arg, idx + 2, Len(arg))]

\* splitScpArg; idx is the 0-based index of the first colon, -1 for none
splitScpArg(arg) ==
    IF HasPrefix(arg, <<"/">>) \/ HasPrefix(arg, <<".", "/">>)
          \/ HasPrefix(arg, <<".", ".", "/">>)
    THEN [name |-> <<>>, path |-> arg]
    ELSE LET idx == Index(arg, ":") - 1
         IN  IF idx < 1 THEN [name |-> <<>>, path |-> arg]
             ELSE [name |-> SubSeq(arg, 1, idx), path |-> SubSeq(arg, idx + 2, Len(arg))]

\* what cmdScp leaves behind: the outcome of the invocation, what it did
\* before it returned or called the transfer (steps), and the arguments of
\* the transfer it chose
ScpOutcome(out, steps, upload, serverName, remotePath, localPath) ==
    [out |-> out, steps |-> steps, upload |-> upload, serverName |-> serverName,
     remotePath |-> remotePath, localPath |-> localPath]

ErrBothRemote == <<"both arguments cannot be remote">>

ErrNoneRemote == <<"one argument must be remote">>

\* variant: the configuration and the store are read before the arguments
\* are looked at
cmdScp_LoadFirst(d, cfg, src, dst, encPassword, dialOk) ==
    LET s == splitScpArg(src)
        t == splitScpArg(dst)
        upload == s.name = <<>>
        serverName == IF s.name # <<>> THEN s.name ELSE t.name
        remotePath == IF s.name # <<>> THEN s.path ELSE t.path
        localPath == IF s.name # <<>> THEN dst ELSE src
        stop(out, steps) ==
            ScpOutcome(out, steps, upload, serverName, remotePath, localPath)
    IN  IF ~cfg THEN stop(EarlyExit(ErrNotInitialized, d), <<"config">>)
        ELSE LET ld == Load(d)
        IN  IF ld.err # NoError THEN stop(EarlyExit(ld.err, d), <<"config", "load">>)
        ELSE IF s.name # <<>> /\ t.name # <<>>
        THEN ScpOutcome(Outcome(ErrBothRemote, ld.store, d, 0), <<"config", "load">>,
                        FALSE, <<>>, <<>>, <<>>)
        ELSE IF s.name = <<>> /\ t.name = <<>>
        THEN ScpOutcome(Outcome(ErrNoneRemote, ld.store, d, 0), <<"config", "load">>,
                        FALSE, <<>>, <<>>, <<>>)
        ELSE LET i == FindServer(ld.store, Str(serverName))
        IN  IF i = 0
            THEN stop(Outcome(<<"not found">>, ld.store, d, 0), <<"config", "load">>)
            ELSE LET vp == VerifyPassword(ld.store, encPassword, NoKeyfile)
            IN  IF vp.err # NoError
                THEN stop(Outcome(vp.err, ld.store, d, 0),
                          <<"config", "load", "password">>)
                ELSE LET dec == Decrypt(vp.key, ld.store.Servers[i].EncryptedPassword)
                IN  IF dec.err # NoError
                    THEN stop(Outcome(<<"decrypting password">> \o dec.err,
                                      ld.store, d, 0),
                              <<"config", "load", "password">>)
                    ELSE IF ~dialOk
                    THEN stop(Outcome(<<"ssh: dial">>, ld.store, d, 0),
                              <<"config", "load", "password", "dial">>)
                    ELSE stop(Outcome(NoError, ld.store, d, 0),
                              <<"config", "load", "password", "dial", "transfer">>)

\* cmdScp up to the call of ssh.Upload or ssh.Download, whose result it returns
cmdScp(d, cfg, src, dst, encPassword, dialOk) ==
    LET s == splitScpArg(src)
        t == splitScpArg(dst)
        upload == s.name = <<>>
        serverName == IF s.name # <<>> THEN s.name ELSE t.name
        remotePath == IF s.name # <<>> THEN s.path ELSE t.path
        localPath == IF s.name # <<>> THEN dst ELSE src
        stop(out, steps) ==
            ScpOutcome(out, steps, upload, serverName, remotePath, localPath)
    IN  IF s.name # <<>> /\ t.name # <<>>
        THEN ScpOutcome(EarlyExit(ErrBothRemote, d), <<>>, FALSE, <<>>, <<>>, <<>>)
        ELSE IF s.name = <<>> /\ t.name = <<>>
        THEN ScpOutcome(EarlyExit(ErrNoneRemote, d), <<>>, FALSE, <<>>, <<>>, <<>>)
        ELSE IF ~cfg THEN stop(EarlyExit(ErrNotInitialized, d), <<"config">>)
        ELSE LET ld == Load(d)
        IN  IF ld.err # NoError THEN stop(EarlyExit(ld.err, d), <<"config", "load">>)
        ELSE LET i == FindServer(ld.store, Str(serverName))
        IN  IF i = 0
            THEN stop(Outcome(<<"not found">>, ld.store, d, 0), <<"config", "load">>)
            ELSE LET vp == VerifyPassword(ld.store, encPassword, NoKeyfile)
            IN  IF vp.err # NoError
                THEN stop(Outcome(vp.err, ld.store, d, 0),
                          <<"config", "load", "password">>)
                ELSE LET dec == Decrypt(vp.key, ld.store.Servers[i].EncryptedPassword)
                IN  IF dec.err # NoError
                    THEN stop(Outcome(<<"decrypting password">> \o dec.err,
                                      ld.store, d, 0),
                              <<"config", "load", "password">>)
                    ELSE IF ~dialOk
                    THEN stop(Outcome(<<"ssh: dial">>, ld.store, d, 0),
                              <<"config", "load", "password", "dial">>)
                    ELSE stop(Outcome(NoError, ld.store, d, 0),
                              <<"config", "load", "password", "dial", "transfer">>)

\* ---------------------------------------------------------- transfer steps
\* fmt's %d of an int64
RECURSIVE FormatDigits(_)
FormatDigits(n) ==
    IF n < 10 THEN <<Digits[n + 1]>>
    ELSE Append(FormatDigits(n \div 10), Digits[(n % 10) + 1])

FormatInt(n) == IF n < 0 THEN <<"-">> \o FormatDigits(0 - n) ELSE FormatDigits(n)

\* filepath.Base: the last element of the path, trailing separators removed
RECURSIVE Base(_)
Base(path) ==
    IF path = <<>> THEN <<".">>
    ELSE IF path[Len(path)] = "/"
         THEN IF Len(path) = 1 THEN <<"/">> ELSE Base(SubSeq(path, 1, Len(path) - 1))
         ELSE SubSeq(path, LastIndex(path, "/") + 1, Len(path))

\* strings.SplitN with a one-character separator and n >= 1
RECURSIVE SplitN(_, _, _)
SplitN(str, sep, n) ==
    LET i == Index(str, sep)
    IN  IF n = 1 \/ i = 0 THEN <<str>>
        ELSE <<SubSeq(str, 1, i - 1)>> \o SplitN(SubSeq(str, i + 1, Len(str)), sep, n - 1)

\* strconv.ParseInt(s, 10, 64) on numbers of a few digits: an optional sign
\* followed by one or more decimal digits
ParseInt(str) ==
    LET signed == Len(str) > 0 /\ str[1] \in {"+", "-"}
        ds == IF signed THEN Tail(str) ELSE str
    IN  IF ds = <<>> \/ \E i \in 1..Len(ds) : ~IsDigit(ds[i])
        THEN [err |-> <<"strconv.ParseInt: parsing " \o Quote(str) \o ": invalid syntax">>,
              n |-> 0]
        ELSE [err |-> NoError,
              n |-> IF signed /\ str[1] = "-" THEN 0 - DecimalValue(ds)
                    ELSE DecimalValue(ds)]

\* variant: the header is cut at every space
parseHeader_EverySpace(header) ==
    LET parts == SplitN(header, " ", Len(header) + 1)
    IN  IF Len(parts) # 3
        THEN [err |-> <<"invalid scp header: " \o Quote(header)>>,
              size |-> 0, filename |-> <<>>]
        ELSE LET p == ParseInt(parts[2])
             IN  IF p.err # NoError
                 THEN [err |-> <<"invalid size in header">> \o p.err,
                       size |-> 0, filename |-> <<>>]
                 ELSE [err |-> NoError, size |-> p.n, filename |-> parts[3]]

parseHeader(header) ==
    LET parts == SplitN(header, " ", 3)
    IN  IF Len(parts) # 3
        THEN [err |-> <<"invalid scp header: " \o Quote(header)>>,
              size |-> 0, filename |-> <<>>]
        ELSE LET p == ParseInt(parts[2])
             IN  IF p.err # NoError
                 THEN [err |-> <<"invalid size in header">> \o p.err,
                       size |-> 0, filename |-> <<>>]
                 ELSE [err |-> NoError, size |-> p.n, filename |-> parts[3]]

\* one entry of the record of a channel: d is "r" for a read, "w" for a write
\* and "wfail" for a write that returned an error
Entry(d, k, n, str) == [d |-> d, k |-> k, n |-> n, s |-> str]

EndOfStream == 0 - 1

\* what the peer supplies to readLine: the characters before the newline, or
\* before the channel closes (eol = FALSE)
LineFeed(text, eol) == [text |-> text, eol |-> eol]

readLine(lf) ==
    [line |-> lf.text,
     err |-> IF lf.eol THEN NoError ELSE <<"EOF">>,
     io |-> <<Entry("r", "line", IF lf.eol THEN 1 ELSE 0, lf.text)>>]

\* what the peer supplies to readAck: one byte (or the end of the stream) and
\* the line that follows a non-zero byte
AckFeed(byte, lf) == [byte |-> byte, lf |-> lf]

\* variant: the message line is left on the channel and the code is not printed
readAck_NoMessage(feed) ==
    IF feed.byte = EndOfStream
    THEN [err |-> <<"reading ack", "EOF">>, io |-> <<Entry("r", "ack", EndOfStream, <<>>)>>]
    ELSE IF feed.byte # 0
         THEN [err |-> <<"scp error">>, io |-> <<Entry("r", "ack", feed.byte, <<>>)>>]
         ELSE [err |-> NoError, io |-> <<Entry("r", "ack", 0, <<>>)>>]

readAck(feed) ==
    IF feed.byte = EndOfStream
    THEN [err |-> <<"reading ack", "EOF">>, io |-> <<Entry("r", "ack", EndOfStream, <<>>)>>]
    ELSE IF feed.byte # 0
         THEN LET rl == readLine(feed.lf)
              IN  [err |-> <<"scp error (code " \o ToString(feed.byte) \o "): "
                             \o Str(rl.line)>>,
                   io |-> <<Entry("r", "ack", feed.byte, <<>>)>> \o rl.io]
         ELSE [err |-> NoError, io |-> <<Entry("r", "ack", 0, <<>>)>>]

\* io.CopyN(dst, src, n) when the source delivers avail bytes before it ends:
\* min(n, avail) bytes are copied, none for n <= 0; a short copy is an EOF
CopyN(n, avail) ==
    LET written == IF n <= 0 THEN 0 ELSE IF avail < n THEN avail ELSE n
    IN  [written |-> written,
         err |-> IF written = n THEN NoError
                 ELSE IF written < n THEN <<"EOF">> ELSE NoError]

\* filepath.Clean of a path given as its elements, kept so far in done
RECURSIVE CleanElems(_, _, _)
CleanElems(elems, done, rooted) ==
    IF elems = <<>> THEN done
    ELSE LET e == Head(elems)
             rest == Tail(elems)
         IN  IF e = <<>> \/ e = <<".">> THEN CleanElems(rest, done, rooted)
             ELSE IF e = <<".", ".">>
                  THEN IF done # <<>> /\ done[Len(done)] # <<".", ".">>
                       THEN CleanElems(rest, SubSeq(done, 1, Len(done) - 1), rooted)
                       ELSE IF rooted THEN CleanElems(rest, done, rooted)
                            ELSE CleanElems(rest, Append(done, e), rooted)
                  ELSE CleanElems(rest, Append(done, e), rooted)

RECURSIVE JoinElems(_)
JoinElems(elems) ==
    IF elems = <<>> THEN <<>>
    ELSE IF Len(elems) = 1 THEN Head(elems)
         ELSE Head(elems) \o <<"/">> \o JoinElems(Tail(elems))

Clean(path) ==
    LET rooted == Len(path) > 0 /\ path[1] = "/"
        kept == CleanElems(SplitN(path, "/", Len(path) + 1), <<>>, rooted)
        body == JoinElems(kept)
    IN  IF rooted THEN <<"/">> \o body
        ELSE IF body = <<>> THEN <<".">> ELSE body

\* filepath.Join of two elements
Join(dir, name) ==
    IF dir = <<>> /\ name = <<>> THEN <<>>
    ELSE IF dir = <<>> THEN Clean(name)
         ELSE IF name = <<>> THEN Clean(dir)
              ELSE Clean(dir \o <<"/">> \o name)

\* a transfer that has not started
NoTransfer ==
    [dir |-> "none", pc |-> "idle", io |-> <<>>, err |-> NoError,
     localPath |-> <<>>, file |-> [kind |-> "none", size |-> 0, len |-> 0],
     dest |-> [path |-> <<>>, kind |-> "none"],
     size |-> 0, filename |-> <<>>, target |-> <<>>, created |-> FALSE,
     received |-> 0]

Fail(t, err) == [t EXCEPT !.pc = "failed", !.err = err]

Log(t, entries) == [t EXCEPT !.io = @ \o entries]

\* client.NewSession, the two pipes and session.Start
SessionError(sess) ==
    IF sess = "session" THEN <<"creating session", "ssh">>
    ELSE IF sess = "start" THEN <<"starting scp", "ssh">>
         ELSE NoError

\* Upload up to its first read: f is what os.Open and Stat find at localPath,
\* size what Stat reports and len what the file holds when it is streamed
UploadOpen(localPath, f, sess) ==
    LET t == [NoTransfer EXCEPT !.dir = "up", !.localPath = localPath, !.file = f]
    IN  IF f.kind = "missing"
        THEN Fail(t, <<"opening local file", "no such file or directory">>)
        ELSE IF f.kind = "dir" THEN Fail(t, <<Str(localPath) \o " is a directory">>)
        ELSE IF SessionError(sess) # NoError THEN Fail(t, SessionError(sess))
        ELSE [t EXCEPT !.pc = "initial_ack", !.size = f.size]

UploadHeader(t) ==
    <<"C", "0", "6", "4", "4", " ">> \o FormatInt(t.size) \o <<" ">>
        \o Base(t.localPath) \o <<"\n">>

UploadInitialAck(t, feed, w) ==
    LET a == readAck(feed)
        t1 == Log(t, a.io)
    IN  IF a.err # NoError THEN Fail(t1, <<"initial ack">> \o a.err)
        ELSE IF w # "ok"
             THEN Fail(Log(t1, <<Entry("wfail", "header", t.size, UploadHeader(t))>>),
                       <<"sending header", "write">>)
             ELSE [Log(t1, <<Entry("w", "header", t.size, UploadHeader(t))>>)
                      EXCEPT !.pc = "header_ack"]

\* io.Copy streams the file to its end, then the completion byte is written
UploadHeaderAck(t, feed, w, w2) ==
    LET a == readAck(feed)
        t1 == Log(t, a.io)
    IN  IF a.err # NoError THEN Fail(t1, <<"header ack">> \o a.err)
        ELSE IF w # "ok"
             THEN Fail(Log(t1, <<Entry("wfail", "data", t.file.len, <<>>)>>),
                       <<"sending file", "write">>)
             ELSE LET t2 == Log(t1, <<Entry("w", "data", t.file.len, <<>>)>>)
                  IN  IF w2 # "ok"
                      THEN Fail(Log(t2, <<Entry("wfail", "zero", 0, <<>>)>>),
                                <<"sending completion", "write">>)
                      ELSE [Log(t2, <<Entry("w", "zero", 0, <<>>)>>)
                               EXCEPT !.pc = "final_ack"]

\* variant: the result of the last readAck is dropped
UploadFinalAck_Ignored(t, feed, waitOk) ==
    LET a == readAck(feed)
        t1 == Log(t, a.io)
    IN  IF ~waitOk THEN Fail(t1, <<"scp session", "ssh">>)
        ELSE [t1 EXCEPT !.pc = "done"]

UploadFinalAck(t, feed, waitOk) ==
    LET a == readAck(feed)
        t1 == Log(t, a.io)
    IN  IF a.err # NoError THEN Fail(t1, <<"final ack">> \o a.err)
        ELSE IF ~waitOk THEN Fail(t1, <<"scp session", "ssh">>)
             ELSE [t1 EXCEPT !.pc = "done"]

\* Download up to its first read: the request byte
DownloadOpen(dest, sess, w) ==
    LET t == [NoTransfer EXCEPT !.dir = "down", !.dest = dest]
    IN  IF SessionError(sess) # NoError THEN Fail(t, SessionError(sess))
        ELSE IF w # "ok"
             THEN Fail(Log(t, <<Entry("wfail", "zero", 0, <<>>)>>),
                       <<"sending initial ack", "write">>)
             ELSE [Log(t, <<Entry("w", "zero", 0, <<>>)>>) EXCEPT !.pc = "header"]

\* variant: the destination is used as given, also when it is a directory
DownloadHeader_Verbatim(t, lf, w, createOk) ==
    LET rl == readLine(lf)
        t1 == Log(t, rl.io)
        header == rl.line
        ph == parseHeader(header)
        target == t.dest.path
        t2 == [t1 EXCEPT !.size = ph.size, !.filename = ph.filename, !.target = target]
    IN  IF rl.err # NoError THEN Fail(t1, <<"reading header">> \o rl.err)
        ELSE IF Len(header) = 0 \/ header[1] # "C"
             THEN Fail(t1, <<"unexpected scp header: " \o Quote(header)>>)
        ELSE IF ph.err # NoError THEN Fail(t1, ph.err)
        ELSE IF w # "ok"
             THEN Fail(Log(t2, <<Entry("wfail", "zero", 0, <<>>)>>),
                       <<"sending header ack", "write">>)
        ELSE LET t3 == Log(t2, <<Entry("w", "zero", 0, <<>>)>>)
             IN  IF ~createOk THEN Fail(t3, <<"creating local file", "open">>)
                 ELSE [t3 EXCEPT !.pc = "content", !.created = TRUE, !.received = 0]

\* variant: the file is created before the header is parsed
DownloadHeader_CreateFirst(t, lf, w, createOk) ==
    LET rl == readLine(lf)
        t1 == Log(t, rl.io)
        header == rl.line
        ph == parseHeader(header)
        target == IF t.dest.kind = "dir" THEN Join(t.dest.path, ph.filename)
                  ELSE t.dest.path
        t2 == [t1 EXCEPT !.size = ph.size, !.filename = ph.filename, !.target = target]
    IN  IF rl.err # NoError THEN Fail(t1, <<"reading header">> \o rl.err)
        ELSE IF Len(header) = 0 \/ header[1] # "C"
             THEN Fail(t1, <<"unexpected scp header: " \o Quote(header)>>)
        ELSE IF ph.err # NoError THEN Fail([t1 EXCEPT !.created = createOk], ph.err)
        ELSE IF w # "ok"
             THEN Fail(Log(t2, <<Entry("wfail", "zero", 0, <<>>)>>),
                       <<"sending header ack", "write">>)
        ELSE LET t3 == Log(t2, <<Entry("w", "zero", 0, <<>>)>>)
             IN  IF ~createOk THEN Fail(t3, <<"creating local file", "open">>)
                 ELSE [t3 EXCEPT !.pc = "content", !.created = TRUE, !.received = 0]

\* the header line, its parse, the destination, the header ack and os.Create
DownloadHeader(t, lf, w, createOk) ==
    LET rl == readLine(lf)
        t1 == Log(t, rl.io)
        header == rl.line
        ph == parseHeader(header)
        target == IF t.dest.kind = "dir" THEN Join(t.dest.path, ph.filename)
                  ELSE t.dest.path
        t2 == [t1 EXCEPT !.size = ph.size, !.filename = ph.filename, !.target = target]
    IN  IF rl.err # NoError THEN Fail(t1, <<"reading header">> \o rl.err)
        ELSE IF Len(header) = 0 \/ header[1] # "C"
             THEN Fail(t1, <<"unexpected scp header: " \o Quote(header)>>)
        ELSE IF ph.err # NoError THEN Fail(t1, ph.err)
        ELSE IF w # "ok"
             THEN Fail(Log(t2, <<Entry("wfail", "zero", 0, <<>>)>>),
                       <<"sending header ack", "write">>)
        ELSE LET t3 == Log(t2, <<Entry("w", "zero", 0, <<>>)>>)
             IN  IF ~createOk THEN Fail(t3, <<"creating local file", "open">>)
                 ELSE [t3 EXCEPT !.pc = "content", !.created = TRUE, !.received = 0]

\* io.CopyN of size bytes into the file, the peer delivering avail bytes
DownloadContent(t, avail) ==
    LET c == CopyN(t.size, avail)
        t1 == [Log(t, <<Entry("r", "data", c.written, <<>>)>>)
                  EXCEPT !.received = c.written]
    IN  IF c.err # NoError THEN Fail(t1, <<"receiving file">> \o c.err)
        ELSE [t1 EXCEPT !.pc = "trailing"]

\* variant: at the end of the stream the content is awaited again
DownloadTrailing_Retry(t, byte, w, waitOk) ==
    LET t1 == Log(t, <<Entry("r", "byte", byte, <<>>)>>)
    IN  IF byte = EndOfStream
        THEN [t EXCEPT !.pc = "content", !.received = 0,
                       !.io = SubSeq(t.io, 1, Len(t.io) - 1)]
        ELSE IF w # "ok"
             THEN Fail(Log(t1, <<Entry("wfail", "zero", 0, <<>>)>>),
                       <<"sending final ack", "write">>)
        ELSE LET t2 == Log(t1, <<Entry("w", "zero", 0, <<>>)>>)
             IN  IF ~waitOk THEN Fail(t2, <<"scp session", "ssh">>)
                 ELSE [t2 EXCEPT !.pc = "done"]

\* the trailing byte, the final ack, stdin.Close and session.Wait
DownloadTrailing(t, byte, w, waitOk) ==
    LET t1 == Log(t, <<Entry("r", "byte", byte, <<>>)>>)
    IN  IF byte = EndOfStream THEN Fail(t1, <<"reading trailing byte", "EOF">>)
        ELSE IF w # "ok"
             THEN Fail(Log(t1, <<Entry("wfail", "zero", 0, <<>>)>>),
                       <<"sending final ack", "write">>)
        ELSE LET t2 == Log(t1, <<Entry("w", "zero", 0, <<>>)>>)
             IN  IF ~waitOk THEN Fail(t2, <<"scp session", "ssh">>)
                 ELSE [t2 EXCEPT !.pc = "done"]

\* ------------------------------------------------------------ state machine
VARIABLES
    disk,       \* the storage file
    diskPw,     \* the password the stored verification token was made with
    config,     \* TRUE once ~/.essh/config.json names the storage file
    cmd,        \* the command that ran last
    res,        \* the error it returned (NoError for nil)
    mem,        \* the store it held in memory when it returned
    memPw,      \* the password that store's verification token was made with
    saveCalls,  \* how many times it called Save
    nSaves,     \* successful saves since the store was created by Init
    probe,      \* a store built by storage.Init, and what it was built from
    answer,     \* the last call of VerifyPassword or Decrypt on it
    prev,       \* the call before that
    st,         \* a store that AddServer, RemoveServer, RenameServer act on
    op,         \* the last of these calls: its arguments, its error, st before
    scp,        \* one Upload or Download: its position, its I/O so far
    call,       \* what the last invocation was given: its arguments and answers
    box,        \* a plaintext sealed by Encrypt, and the last Decrypt of the blob
    run         \* two invocations under way: what each will write to the file

vars == <<disk, diskPw, config, cmd, res, mem, memPw, saveCalls, nSaves,
          probe, answer, prev, st, op, scp, call, box, run>>

cryptoVars == <<probe, answer, prev>>

storeVars == <<st, op>>

cmdVars == <<disk, diskPw, config, cmd, res, mem, memPw, saveCalls, nSaves, call,
             box, run>>

NoProbe ==
    [made |-> FALSE, intact |-> FALSE, store |-> ZeroStore, pw |-> NoPassword,
     kf |-> NoKeyfile]

NoServer == Server("", <<>>, <<>>, 0, HexEncodeToString(ShortData))

NoOp ==
    [name |-> "none", arg |-> "", arg2 |-> "", srv |-> NoServer, err |-> NoError,
     before |-> ZeroStore]

\* what is typed at the prompts of edit; an empty answer keeps the value
EditForm(user, host, port, secret) ==
    [user |-> user, host |-> host, port |-> port, secret |-> secret]

NoForm == EditForm(<<>>, <<>>, <<>>, "")

NoCall ==
    [cmd |-> "none", name |-> "", encPassword |-> NoPassword, target |-> <<>>,
     form |-> NoForm, src |-> <<>>, dst |-> <<>>, steps |-> <<>>, upload |-> FALSE,
     serverName |-> <<>>, remotePath |-> <<>>, localPath |-> <<>>]

\* nothing sealed yet
NoBox ==
    [sealed |-> FALSE, opened |-> FALSE, pw |-> NoPassword, salt |-> 0,
     kf |-> NoKeyfile, pt |-> "", blob |-> HexEncodeToString(ShortData),
     pw2 |-> NoPassword, salt2 |-> 0, kf2 |-> NoKeyfile, err |-> NoError,
     val |-> ""]

\* an invocation that is not under way
Idle == [pc |-> "idle", cmd |-> "none", store |-> ZeroStore, over |-> FALSE]

\* no invocation under way; last is the command that wrote the file last,
\* stale tells that the other invocation wrote between its load and its
\* write, other is the command of that invocation
NoRun == [slots |-> <<Idle, Idle>>, last |-> "none", stale |-> FALSE, other |-> "none"]

NoAnswer ==
    [op |-> "none", pw |-> NoPassword, kf |-> NoKeyfile, cause |-> "none",
     err |-> NoError, key |-> NoKey, val |-> ""]

\* inputs the commands are run with
AnyPassword == Passwords \cup {NoPassword}
\* the second entry of a password typed twice: the same, or a slip
Retyped(pw) == {pw, <<9>>}
Targets == {<<"u", "@", "h">>, <<"u", "h">>}
EditUsers == {<<>>}
EditHosts == {<<>>}
EditPorts == {<<>>, <<"x">>}
EditSecrets == Secrets \cup {""}

NotHexString == [hex |-> FALSE, bytes |-> ShortData]
ShortBlob == HexEncodeToString(ShortData)
TamperedBlob == HexEncodeToString([Seal(NoKey, 1, "") EXCEPT !.tag = FALSE])
BadBlobs == {NotHexString, ShortBlob, TamperedBlob}
\* what Tamper writes
TamperBlobs == {NotHexString, TamperedBlob}

Init ==
    /\ disk = MissingFile
    /\ diskPw = NoPassword
    /\ config = FALSE
    /\ cmd = "none"
    /\ res = NoError
    /\ mem = [present |-> FALSE, store |-> ZeroStore]
    /\ memPw = NoPassword
    /\ saveCalls = 0
    /\ nSaves = 0
    /\ probe = NoProbe
    /\ answer = NoAnswer
    /\ prev = NoAnswer
    /\ st = ZeroStore
    /\ op = NoOp
    /\ scp = NoTransfer
    /\ call = NoCall
    /\ box = NoBox
    /\ run = NoRun

\* the effect of one invocation; pw is the password its in-memory store is
\* under when it returns, fresh tells that Init built that store
Conclude(name, out, pw, fresh) ==
    /\ out.mem.store.Version <= MaxVersion
    /\ Len(out.mem.store.Servers) <= MaxServers
    /\ cmd' = name
    /\ res' = out.err
    /\ mem' = out.mem
    /\ memPw' = pw
    /\ saveCalls' = out.saveCalls
    /\ disk' = out.disk
    /\ UNCHANGED <<cryptoVars, storeVars, box, run>>
    /\ LET written == out.saveCalls > 0 /\ out.err = NoError
       IN  /\ diskPw' = IF written THEN pw ELSE diskPw
           /\ nSaves' = IF written THEN (IF fresh THEN 1 ELSE nSaves + 1) ELSE nSaves

\* an invocation of which only the outcome is kept
Finish(name, out, pw, fresh) ==
    /\ Conclude(name, out, pw, fresh)
    /\ UNCHANGED <<scp, call>>

\* the outcome of the write matters only to an invocation that reaches Save
Writes(out) == IF out.saveCalls > 0 THEN WriteOutcomes ELSE {"ok"}

RunInit ==
    \E pw \in AnyPassword : \E pw2 \in Retyped(pw), salt \in Salts, rnd \in Seeds :
      \E w \in Writes(cmdInit(disk, pw, pw2, salt, rnd, "ok")) :
        LET out == cmdInit(disk, pw, pw2, salt, rnd, w)
        IN  /\ Finish("init", out, IF out.mem.present THEN pw ELSE NoPassword, TRUE)
            /\ config' = (config \/ out.err = NoError)

\* the password of the store a command other than init and passwd holds
LoadedPw(out) == IF out.mem.present THEN diskPw ELSE NoPassword

RunAdd ==
    \E name \in Names, target \in Targets, encPassword \in Passwords,
       sshPassword \in Secrets, rnd \in Seeds :
      \E w \in Writes(cmdAdd(disk, config, name, target, encPassword, sshPassword,
                             rnd, "ok")) :
        LET out == cmdAdd(disk, config, name, target, encPassword, sshPassword, rnd, w)
        IN  /\ Finish("add", out, LoadedPw(out), FALSE)
            /\ UNCHANGED config

RunRemove ==
    \E name \in Names, encPassword \in Passwords, ok \in BOOLEAN :
      \E w \in Writes(cmdRemove(disk, config, name, encPassword, ok, "ok")) :
        LET out == cmdRemove(disk, config, name, encPassword, ok, w)
        IN  /\ Finish("remove", out, LoadedPw(out), FALSE)
            /\ UNCHANGED config

RunRename ==
    \E oldName \in Names, newName \in Names :
      \E w \in Writes(cmdRename(disk, config, oldName, newName, "ok")) :
        LET out == cmdRename(disk, config, oldName, newName, w)
        IN  /\ Finish("rename", out, LoadedPw(out), FALSE)
            /\ UNCHANGED config

RunEdit ==
    \E name \in Names, encPassword \in Passwords, newUser \in EditUsers,
       newHost \in EditHosts, newPort \in EditPorts, newSSHPw \in EditSecrets,
       rnd \in Seeds :
      \E w \in Writes(cmdEdit(disk, config, name, encPassword, newUser, newHost,
                              newPort, newSSHPw, rnd, "ok")) :
        LET out == cmdEdit(disk, config, name, encPassword, newUser, newHost,
                           newPort, newSSHPw, rnd, w)
        IN  /\ Finish("edit", out, LoadedPw(out), FALSE)
            /\ UNCHANGED config

RunPasswd ==
    \E oldPassword \in Passwords, pw \in AnyPassword :
      \E pw2 \in Retyped(pw), newSalt \in Salts, rnd \in Seeds :
      \E w \in Writes(cmdPasswd(disk, config, oldPassword, pw, pw2, newSalt, rnd, "ok")) :
        LET out == cmdPasswd(disk, config, oldPassword, pw, pw2, newSalt, rnd, w)
        IN  /\ Finish("passwd", out,
                      IF out.saveCalls > 0 THEN pw ELSE LoadedPw(out), FALSE)
            /\ UNCHANGED config

\* the storage file is an ordinary file: something other than essh replaces
\* the encrypted_password of one entry
Tamper ==
    /\ disk.state = "ok"
    /\ \E i \in 1..Len(disk.store.Servers), bad \in TamperBlobs :
        disk' = [disk EXCEPT !.store.Servers[i].EncryptedPassword = bad]
    /\ cmd' = "tamper"
    /\ res' = NoError
    /\ mem' = [present |-> FALSE, store |-> ZeroStore]
    /\ memPw' = NoPassword
    /\ saveCalls' = 0
    /\ UNCHANGED <<diskPw, config, nSaves, cryptoVars, storeVars, scp, call, box, run>>

Next ==
    \/ RunInit
    \/ RunAdd
    \/ RunRemove
    \/ RunRename
    \/ RunEdit
    \/ RunPasswd
    \/ Tamper

Spec == Init /\ [][Next]_vars

\* ------------------------------------------- storage and crypto on their own
\* storage.Init with a password and a keyfile (empty for none)
MakeStore ==
    /\ ~probe.made
    /\ \E pw \in Passwords, kf \in Keyfiles, salt \in Salts, rnd \in Seeds :
        probe' = [made |-> TRUE, intact |-> TRUE, pw |-> pw, kf |-> kf,
                  store |-> StorageInit(MissingFile, pw, kf, salt, rnd, "ok").store]
    /\ UNCHANGED <<cmdVars, answer, prev, storeVars, scp>>

\* the file is edited: the token is replaced by a string that is not hex, by
\* too few bytes, by a box whose tag does not verify, or by a box that holds
\* another plaintext under the store's key; or the salt is no longer hex
DamageStore ==
    /\ probe.made /\ probe.intact
    /\ \/ \E bad \in BadBlobs \cup
                     {Encrypt(probe.store.Verification.bytes.key, "s1", 1)} :
            probe' = [probe EXCEPT !.intact = FALSE, !.store.Verification = bad]
       \/ probe' = [probe EXCEPT !.intact = FALSE,
                                 !.store.Salt = [hex |-> FALSE, bytes |-> 0]]
    /\ UNCHANGED <<cmdVars, answer, prev, storeVars, scp>>

\* why a verification of store s with these factors fails, if it does
Cause(s, pw, kf) ==
    IF GetSalt(s).err # NoError THEN "salt"
    ELSE LET dec == Decrypt(DeriveKey(pw, GetSalt(s).bytes, kf), s.Verification)
         IN  IF dec.err # NoError THEN "decrypt"
             ELSE IF dec.val # VerifyStr THEN "mismatch" ELSE "none"

Verify ==
    /\ probe.made
    /\ \E pw \in AnyPassword, kf \in Keyfiles :
        LET r == VerifyPassword(probe.store, pw, kf)
        IN  answer' = [op |-> "verify", pw |-> pw, kf |-> kf,
                       cause |-> Cause(probe.store, pw, kf),
                       err |-> r.err, key |-> r.key, val |-> ""]
    /\ prev' = answer
    /\ UNCHANGED <<cmdVars, probe, storeVars, scp>>

\* crypto.Decrypt of the token under a key derived with the store's salt
DecryptToken ==
    /\ probe.made
    /\ GetSalt(probe.store).err = NoError
    /\ \E pw \in Passwords, kf \in Keyfiles :
        LET key == DeriveKey(pw, GetSalt(probe.store).bytes, kf)
            r == Decrypt(key, probe.store.Verification)
            d == HexDecodeString(probe.store.Verification)
        IN  answer' = [op |-> "decrypt", pw |-> pw, kf |-> kf,
                       cause |-> IF r.err = NoError THEN "none"
                                 ELSE IF d.err # NoError \/ d.bytes.short
                                      THEN "malformed" ELSE "tag",
                       err |-> r.err, key |-> key, val |-> r.val]
    /\ prev' = answer
    /\ UNCHANGED <<cmdVars, probe, storeVars, scp>>

CryptoNext ==
    \/ MakeStore
    \/ DamageStore
    \/ Verify
    \/ DecryptToken

SpecCrypto == Init /\ [][CryptoNext]_vars

\* ------------------------------------------------ the server list on its own
\* names differing in case only are different names
StoreNames == {"a", "b", "A"}

\* the entries cmdAdd builds, told apart by their secret
Entries ==
    {Server(name, <<"u">>, <<"h">>, 22,
            Encrypt(DeriveKey(<<1>>, 1, NoKeyfile), secret, 1)) :
        name \in StoreNames, secret \in Secrets}

DoAddServer ==
    /\ \E srv \in Entries :
        LET r == AddServer(st, srv)
        IN  /\ Len(r.store.Servers) <= MaxServers
            /\ st' = r.store
            /\ op' = [name |-> "AddServer", arg |-> srv.Name, arg2 |-> "",
                      srv |-> srv, err |-> r.err, before |-> st]
    /\ UNCHANGED <<cmdVars, cryptoVars, scp>>

DoRemoveServer ==
    /\ \E name \in StoreNames :
        LET r == RemoveServer(st, name)
        IN  /\ st' = r.store
            /\ op' = [name |-> "RemoveServer", arg |-> name, arg2 |-> "",
                      srv |-> NoServer, err |-> r.err, before |-> st]
    /\ UNCHANGED <<cmdVars, cryptoVars, scp>>

DoRenameServer ==
    /\ \E oldName \in StoreNames, newName \in StoreNames :
        LET r == RenameServer(st, oldName, newName)
        IN  /\ st' = r.store
            /\ op' = [name |-> "RenameServer", arg |-> oldName, arg2 |-> newName,
                      srv |-> NoServer, err |-> r.err, before |-> st]
    /\ UNCHANGED <<cmdVars, cryptoVars, scp>>

StoreNext ==
    \/ DoAddServer
    \/ DoRemoveServer
    \/ DoRenameServer

SpecStore == Init /\ [][StoreNext]_vars

\* ------------------------------------------------------ transfers on their own
UploadPaths == {<<"f">>, <<"d", "/", "f">>}

LocalFiles ==
    {[kind |-> "missing", size |-> 0, len |-> 0],
     [kind |-> "dir", size |-> 0, len |-> 0],
     [kind |-> "file", size |-> 0, len |-> 0],
     [kind |-> "file", size |-> 3, len |-> 3],
     [kind |-> "file", size |-> 3, len |-> 2],
     [kind |-> "file", size |-> 3, len |-> 4]}

DownloadDests ==
    {[path |-> <<"d">>, kind |-> "dir"],
     [path |-> <<"o">>, kind |-> "file"],
     [path |-> <<"n">>, kind |-> "missing"]}

SessionOutcomes == {"ok", "session", "start"}

ChannelWrites == {"ok", "error"}

ErrLines == {<<"p", "e", "r", "m", "i", "s", "s", "i", "o", "n", " ", "d", "e", "n", "i", "e", "d">>, <<>>}

AckFeeds ==
    {AckFeed(b, LineFeed(<<>>, TRUE)) : b \in {EndOfStream, 0}}
        \cup {AckFeed(b, LineFeed(l, e)) : b \in {1, 2}, l \in ErrLines, e \in BOOLEAN}

HeaderLines ==
    {<<"C", "0", "6", "4", "4", " ", "1", "2", "3", "4", "5", " ", "f", "i", "l", "e", ".", "t", "x", "t">>,
     <<"C", "0", "6", "4", "4", " ", "1", "2", "3", "4", "5">>,
     <<"C", "0", "6", "4", "4", " ", "x", " ", "f">>,
     <<"C", "0", "6", "4", "4", " ", "-", "5", " ", "f">>,
     <<"C", "0", "6", "4", "4", " ", "3", " ", "a", " ", "b">>,
     <<"C", "0", "6", "4", "4", " ", "0", " ", "e">>,
     <<"D", "0", "7", "5", "5", " ", "0", " ", "d">>,
     <<>>}

\* the last one is a header cut by the end of the stream
HeaderFeeds ==
    {LineFeed(h, TRUE) : h \in HeaderLines} \cup {LineFeed(<<"C", "0">>, FALSE)}

Avails(size) == {0} \cup (IF size > 0 THEN {size - 1, size, size + 1} ELSE {1})

TrailingBytes == {EndOfStream, 0, 1}

Ended == scp.pc \in {"idle", "done", "failed"}

RunUploadOpen ==
    /\ Ended
    /\ \E localPath \in UploadPaths, f \in LocalFiles, sess \in SessionOutcomes :
        scp' = UploadOpen(localPath, f, sess)
    /\ UNCHANGED <<cmdVars, cryptoVars, storeVars>>

RunUploadInitialAck ==
    /\ scp.dir = "up" /\ scp.pc = "initial_ack"
    /\ \E feed \in AckFeeds, w \in ChannelWrites :
        scp' = UploadInitialAck(scp, feed, w)
    /\ UNCHANGED <<cmdVars, cryptoVars, storeVars>>

RunUploadHeaderAck ==
    /\ scp.dir = "up" /\ scp.pc = "header_ack"
    /\ \E feed \in AckFeeds, w \in ChannelWrites, w2 \in ChannelWrites :
        scp' = UploadHeaderAck(scp, feed, w, w2)
    /\ UNCHANGED <<cmdVars, cryptoVars, storeVars>>

RunUploadFinalAck ==
    /\ scp.dir = "up" /\ scp.pc = "final_ack"
    /\ \E feed \in AckFeeds, waitOk \in BOOLEAN :
        scp' = UploadFinalAck(scp, feed, waitOk)
    /\ UNCHANGED <<cmdVars, cryptoVars, storeVars>>

RunDownloadOpen ==
    /\ Ended
    /\ \E dest \in DownloadDests, sess \in SessionOutcomes, w \in ChannelWrites :
        scp' = DownloadOpen(dest, sess, w)
    /\ UNCHANGED <<cmdVars, cryptoVars, storeVars>>

RunDownloadHeader ==
    /\ scp.dir = "down" /\ scp.pc = "header"
    /\ \E lf \in HeaderFeeds, w \in ChannelWrites, createOk \in BOOLEAN :
        scp' = DownloadHeader(scp, lf, w, createOk)
    /\ UNCHANGED <<cmdVars, cryptoVars, storeVars>>

RunDownloadContent ==
    /\ scp.dir = "down" /\ scp.pc = "content"
    /\ \E avail \in Avails(scp.size) :
        scp' = DownloadContent(scp, avail)
    /\ UNCHANGED <<cmdVars, cryptoVars, storeVars>>

RunDownloadTrailing ==
    /\ scp.dir = "down" /\ scp.pc = "trailing"
    /\ \E byte \in TrailingBytes, w \in ChannelWrites, waitOk \in BOOLEAN :
        scp' = DownloadTrailing(scp, byte, w, waitOk)
    /\ UNCHANGED <<cmdVars, cryptoVars, storeVars>>

ScpNext ==
    \/ RunUploadOpen
    \/ RunUploadInitialAck
    \/ RunUploadHeaderAck
    \/ RunUploadFinalAck
    \/ RunDownloadOpen
    \/ RunDownloadHeader
    \/ RunDownloadContent
    \/ RunDownloadTrailing

SpecScp == Init /\ [][ScpNext]_vars

\* every blocking read returns: the channel delivers what is awaited or fails,
\* and a line ends with a newline or with the end of the stream
ScpFairness ==
    /\ WF_vars(RunUploadInitialAck)
    /\ WF_vars(RunUploadHeaderAck)
    /\ WF_vars(RunUploadFinalAck)
    /\ WF_vars(RunDownloadHeader)
    /\ WF_vars(RunDownloadContent)
    /\ WF_vars(RunDownloadTrailing)

SpecScpLive == Init /\ [][ScpNext]_vars /\ ScpFairness

\* ------------------------------------------- commands with what they were given
InitPasswords == {<<1>>}

CallTargets == {<<"u", "@", "h">>, <<"u", "@", "h", ":", "0">>, <<"u", "h">>}

EditForms ==
    {NoForm,
     EditForm(<<"v">>, <<>>, <<>>, ""),
     EditForm(<<>>, <<"g">>, <<>>, ""),
     EditForm(<<>>, <<>>, <<"8">>, ""),
     EditForm(<<>>, <<>>, <<"0">>, ""),
     EditForm(<<"v">>, <<>>, <<"x">>, ""),
     EditForm(<<>>, <<>>, <<>>, "s2"),
     EditForm(<<"v">>, <<"g">>, <<"8">>, "s2")}

ScpArgs ==
    {<<"a", ":", "/", "e">>, <<".", "/", "l", ":", "x">>, <<"/", "p", ":", "w">>, <<"f">>, <<":", "x">>, <<"b", ":", "c", ":", "d">>}

\* what cmdScp hands to the transfer: a file to send, a place to receive
CallFiles == {f \in LocalFiles : f.kind \in {"file", "missing"} /\ f.len = f.size /\ f.size # 3}

CallDestKinds == {"dir", "missing"}

\* init in a directory that holds no storage file yet
CallInit ==
    /\ disk.state = "missing"
    /\ \E pw \in InitPasswords : \E pw2 \in Retyped(pw), salt \in Salts, rnd \in Seeds :
        \E w \in Writes(cmdInit(disk, pw, pw2, salt, rnd, "ok")) :
          LET out == cmdInit(disk, pw, pw2, salt, rnd, w)
          IN  /\ Conclude("init", out, IF out.mem.present THEN pw ELSE NoPassword, TRUE)
              /\ config' = (config \/ out.err = NoError)
              /\ call' = [NoCall EXCEPT !.cmd = "init", !.encPassword = pw]
    /\ scp' = NoTransfer

CallAdd ==
    /\ \E name \in Names, target \in CallTargets, encPassword \in Passwords,
          rnd \in Seeds :
        \E w \in Writes(cmdAdd(disk, config, name, target, encPassword, "s1", rnd, "ok")) :
          LET out == cmdAdd(disk, config, name, target, encPassword, "s1", rnd, w)
          IN  /\ Conclude("add", out, LoadedPw(out), FALSE)
              /\ call' = [NoCall EXCEPT !.cmd = "add", !.name = name,
                                        !.encPassword = encPassword, !.target = target]
    /\ scp' = NoTransfer
    /\ UNCHANGED config

CallEdit ==
    /\ \E name \in Names, encPassword \in Passwords, form \in EditForms, rnd \in Seeds :
        \E w \in Writes(cmdEdit(disk, config, name, encPassword, form.user, form.host,
                                form.port, form.secret, rnd, "ok")) :
          LET out == cmdEdit(disk, config, name, encPassword, form.user, form.host,
                             form.port, form.secret, rnd, w)
          IN  /\ Conclude("edit", out, LoadedPw(out), FALSE)
              /\ call' = [NoCall EXCEPT !.cmd = "edit", !.name = name,
                                        !.encPassword = encPassword, !.form = form]
    /\ scp' = NoTransfer
    /\ UNCHANGED config

CallRemove ==
    /\ \E name \in Names, encPassword \in Passwords, ok \in BOOLEAN :
        \E w \in Writes(cmdRemove(disk, config, name, encPassword, ok, "ok")) :
          LET out == cmdRemove(disk, config, name, encPassword, ok, w)
          IN  /\ Conclude("remove", out, LoadedPw(out), FALSE)
              /\ call' = [NoCall EXCEPT !.cmd = "remove", !.name = name,
                                        !.encPassword = encPassword]
    /\ scp' = NoTransfer
    /\ UNCHANGED config

CallPasswd ==
    /\ \E oldPassword \in Passwords, pw \in Passwords :
        \E pw2 \in Retyped(pw), newSalt \in Salts, rnd \in Seeds :
        \E w \in Writes(cmdPasswd(disk, config, oldPassword, pw, pw2, newSalt, rnd, "ok")) :
          LET out == cmdPasswd(disk, config, oldPassword, pw, pw2, newSalt, rnd, w)
          IN  /\ Conclude("passwd", out,
                          IF out.saveCalls > 0 THEN pw ELSE LoadedPw(out), FALSE)
              /\ call' = [NoCall EXCEPT !.cmd = "passwd", !.encPassword = oldPassword]
    /\ scp' = NoTransfer
    /\ UNCHANGED config

\* an input matters only to an invocation that gets as far as asking for it
Reaches(r, step) == \E i \in 1..Len(r.steps) : r.steps[i] = step

ScpPasswords(src, dst) ==
    IF Reaches(cmdScp(disk, config, src, dst, NoPassword, TRUE), "password")
    THEN Passwords ELSE {NoPassword}

ScpDials(src, dst, encPassword) ==
    IF Reaches(cmdScp(disk, config, src, dst, encPassword, TRUE), "dial")
    THEN BOOLEAN ELSE {TRUE}

Started(r) == r.steps # <<>> /\ r.steps[Len(r.steps)] = "transfer"

TransferInputs(r) ==
    IF ~Started(r) THEN {[f |-> CHOOSE f \in CallFiles : TRUE, kind |-> "missing"]}
    ELSE IF r.upload THEN {[f |-> f, kind |-> "missing"] : f \in CallFiles}
         ELSE {[f |-> CHOOSE f \in CallFiles : TRUE, kind |-> k] : k \in CallDestKinds}

\* scp: the command returns what the transfer returns; the transfer is left
\* at its first read, or where it failed before that
CallScp ==
    /\ \E src \in ScpArgs, dst \in ScpArgs :
       \E encPassword \in ScpPasswords(src, dst) :
       \E dialOk \in ScpDials(src, dst, encPassword) :
        LET r == cmdScp(disk, config, src, dst, encPassword, dialOk)
        IN  \E in \in TransferInputs(r) :
              LET t == IF ~Started(r) THEN NoTransfer
                       ELSE IF r.upload THEN UploadOpen(r.localPath, in.f, "ok")
                            ELSE DownloadOpen([path |-> r.localPath, kind |-> in.kind],
                                              "ok", "ok")
              IN  /\ Conclude("scp", [r.out EXCEPT !.err = IF Started(r) THEN t.err ELSE @],
                              LoadedPw(r.out), FALSE)
                  /\ scp' = t
                  /\ call' = [NoCall EXCEPT !.cmd = "scp", !.encPassword = encPassword,
                                            !.src = src, !.dst = dst, !.steps = r.steps,
                                            !.upload = r.upload,
                                            !.serverName = r.serverName,
                                            !.remotePath = r.remotePath,
                                            !.localPath = r.localPath]
    /\ UNCHANGED config

\* add and edit
EditNext ==
    \/ CallInit
    \/ CallAdd
    \/ CallEdit

SpecEdit == Init /\ [][EditNext]_vars

\* the commands that ask for the password whatever was typed before
AuthNext ==
    \/ CallInit
    \/ CallAdd
    \/ CallRemove
    \/ CallPasswd

SpecAuth == Init /\ [][AuthNext]_vars

\* scp on the stores that init and add leave
ScpCmdNext ==
    \/ CallInit
    \/ CallAdd
    \/ CallScp

SpecScpCmd == Init /\ [][ScpCmdNext]_vars

\* --------------------------------------- downloads from a peer that is not trusted
\* headers whose filename holds path separators or ".." elements
HostileHeaderLines ==
    {<<"C", "0", "6", "4", "4", " ", "1", " ", ".", ".", "/", "x">>,
     <<"C", "0", "6", "4", "4", " ", "1", " ", ".", ".", "/", ".", ".", "/", "x">>,
     <<"C", "0", "6", "4", "4", " ", "1", " ", "/", "e", "/", "x">>,
     <<"C", "0", "6", "4", "4", " ", "1", " ", "s", "/", "x">>,
     <<"C", "0", "6", "4", "4", " ", "1", " ", "s", "/", ".", ".", "/", "x">>}

AnyHeaderFeeds == HeaderFeeds \cup {LineFeed(h, TRUE) : h \in HostileHeaderLines}

RunDownloadAnyHeader ==
    /\ scp.dir = "down" /\ scp.pc = "header"
    /\ \E lf \in AnyHeaderFeeds, w \in ChannelWrites, createOk \in BOOLEAN :
        scp' = DownloadHeader(scp, lf, w, createOk)
    /\ UNCHANGED <<cmdVars, cryptoVars, storeVars>>

DownloadNext ==
    \/ RunDownloadOpen
    \/ RunDownloadAnyHeader
    \/ RunDownloadContent
    \/ RunDownloadTrailing

SpecDownload == Init /\ [][DownloadNext]_vars

\* ------------------------------------------- two invocations at the same time
\* Each invocation loads the file, works on its own copy and, at the end of
\* Save, writes the whole file; between the load and the write the other
\* invocation may load and write. Only the file and what each invocation is
\* about to write are kept.
Slots == {1, 2}

\* versions a racing invocation may write
MaxRaceVersion == MaxVersion - 1

RaceTargets == {<<"u", "@", "h">>}

RaceEditSecrets == {"s2"}

RaceRenames == {<<"a", "b">>}

RaceNewPasswords == {<<1, 2>>}

RaceInitSalts == {1}

RaceNewSalts == {2}

\* the second invocation is the one that starts while the first is under way
MayBegin(i) ==
    /\ run.slots[i].pc = "idle"
    /\ i = 2 => run.slots[1].pc = "loaded"

\* invocation i up to the os.WriteFile of Save; out is what the command
\* leaves when that write succeeds. A command that returns before Save
\* changes nothing.
Begin(i, name, out) ==
    /\ MayBegin(i)
    /\ out.mem.store.Version <= MaxRaceVersion
    /\ Len(out.mem.store.Servers) <= MaxServers
    /\ run' = IF out.saveCalls > 0
              THEN [run EXCEPT !.slots[i] = [pc |-> "loaded", cmd |-> name,
                                             store |-> out.mem.store, over |-> FALSE]]
              ELSE run
    /\ UNCHANGED <<disk, diskPw, config, cmd, res, mem, memPw, saveCalls, nSaves,
                   call, box, cryptoVars, storeVars, scp>>

RaceInit ==
    \E i \in Slots, pw \in InitPasswords, salt \in RaceInitSalts, rnd \in Seeds :
        Begin(i, "init", cmdInit(disk, pw, pw, salt, rnd, "ok"))

RaceAdd ==
    \E i \in Slots, name \in Names, target \in RaceTargets,
       encPassword \in Passwords, rnd \in Seeds :
        Begin(i, "add", cmdAdd(disk, config, name, target, encPassword, "s1", rnd, "ok"))

RaceEdit ==
    \E i \in Slots, name \in Names, encPassword \in Passwords,
       newSSHPw \in RaceEditSecrets, rnd \in Seeds :
        Begin(i, "edit", cmdEdit(disk, config, name, encPassword, <<>>, <<>>, <<>>,
                                 newSSHPw, rnd, "ok"))

RaceRemove ==
    \E i \in Slots, name \in Names, encPassword \in Passwords, ok \in BOOLEAN :
        Begin(i, "remove", cmdRemove(disk, config, name, encPassword, ok, "ok"))

RaceRename ==
    \E i \in Slots, r \in RaceRenames :
        Begin(i, "rename", cmdRename(disk, config, r[1], r[2], "ok"))

RacePasswd ==
    \E i \in Slots, oldPassword \in Passwords, pw \in RaceNewPasswords,
       newSalt \in RaceNewSalts, rnd \in Seeds :
        Begin(i, "passwd", cmdPasswd(disk, config, oldPassword, pw, pw, newSalt, rnd, "ok"))

\* the os.WriteFile that ends the Save of invocation i, and for init the
\* config.Save that follows it; an invocation still under way is overtaken
RaceSave ==
    \E i \in Slots, w \in WriteOutcomes :
        LET wr == WriteFile(disk, run.slots[i].store, w)
            j == 3 - i
        IN  /\ run.slots[i].pc = "loaded"
            /\ disk' = wr.disk
            /\ config' = (config \/ (run.slots[i].cmd = "init" /\ wr.err = NoError))
            /\ run' = [slots |-> [run.slots EXCEPT
                                     ![i] = Idle,
                                     ![j] = IF @.pc = "loaded" /\ wr.err = NoError
                                            THEN [@ EXCEPT !.over = TRUE] ELSE @],
                       last |-> run.slots[i].cmd,
                       stale |-> run.slots[i].over,
                       other |-> IF run.slots[i].over THEN run.last ELSE "none"]
            /\ UNCHANGED <<diskPw, cmd, res, mem, memPw, saveCalls, nSaves, call, box,
                           cryptoVars, storeVars, scp>>

RaceNext ==
    \/ RaceInit
    \/ RaceAdd
    \/ RaceEdit
    \/ RaceRemove
    \/ RaceRename
    \/ RacePasswd
    \/ RaceSave

SpecRace == Init /\ [][RaceNext]_vars

\* ------------------------------------------------ Encrypt and Decrypt on their own
Plaintexts == Secrets \cup {"", VerifyStr}

\* Encrypt of a plaintext under the key derived from a password, a salt and a
\* keyfile (empty for none)
SealSecret ==
    /\ \E pw \in Passwords, salt \in Salts, kf \in Keyfiles, pt \in Plaintexts,
          nonce \in Nonces :
        box' = [NoBox EXCEPT !.sealed = TRUE, !.pw = pw, !.salt = salt, !.kf = kf,
                             !.pt = pt,
                             !.blob = Encrypt(DeriveKey(pw, salt, kf), pt, nonce)]
    /\ UNCHANGED <<disk, diskPw, config, cmd, res, mem, memPw, saveCalls, nSaves,
                   call, run, cryptoVars, storeVars, scp>>

\* Decrypt of the blob under a key derived from any password, salt and keyfile
OpenSecret ==
    /\ box.sealed
    /\ \E pw2 \in Passwords, salt2 \in Salts, kf2 \in Keyfiles :
        LET r == Decrypt(DeriveKey(pw2, salt2, kf2), box.blob)
        IN  box' = [box EXCEPT !.opened = TRUE, !.pw2 = pw2, !.salt2 = salt2,
                               !.kf2 = kf2, !.err = r.err, !.val = r.val]
    /\ UNCHANGED <<disk, diskPw, config, cmd, res, mem, memPw, saveCalls, nSaves,
                   call, run, cryptoVars, storeVars, scp>>

SealNext ==
    \/ SealSecret
    \/ OpenSecret

SpecSeal == Init /\ [][SealNext]_vars

\* ------------------------------------------------------------------ claims
Ciphertexts(store) ==
    [i \in 1..Len(store.Servers) |-> store.Servers[i].EncryptedPassword]

\* cmdPasswd returned the error of ReEncryptAll
RotationFailed(c, r) == c = "passwd" /\ r # NoError /\ Head(r) = "decrypting"

\* cmdPasswd returned before ReEncryptAll could succeed
PasswdRefused(c, r) ==
    /\ c = "passwd"
    /\ \/ r = ErrWrongPassword
       \/ r = <<"passwords do not match">>
       \/ r = <<"password cannot be empty">>
       \/ RotationFailed(c, r)

\* C1: a rotation that fails on a record that does not decrypt under the old
\* key leaves the encrypted_secret of every record of the in-memory store as
\* it was before the call.
C1_FailedRotationKeepsCiphertexts ==
    [][RotationFailed(cmd', res') =>
          Ciphertexts(mem'.store) = Ciphertexts(disk.store)]_vars

\* C2: a rotation that fails on a record leaves the salt and the verification
\* token of the in-memory store as they were before the call.
C2_FailedRotationKeepsSaltAndToken ==
    [][RotationFailed(cmd', res') =>
          /\ mem'.store.Salt = disk.store.Salt
          /\ mem'.store.Verification = disk.store.Verification]_vars

\* the rotation failed on a later record, after an earlier one was re-encrypted
C2_Witness ==
    /\ RotationFailed(cmd, res)
    /\ disk.state = "ok"
    /\ Ciphertexts(mem.store) # Ciphertexts(disk.store)

\* C3: a passwd command that fails on the old password, on the new password
\* or in the re-encryption loop does not call Save and leaves the storage
\* file as it was.
C3_FailedPasswdNeverSaves ==
    [][PasswdRefused(cmd', res') => saveCalls' = 0 /\ disk' = disk]_vars

C3_Witness ==
    /\ PasswdRefused(cmd, res)
    /\ res = ErrWrongPassword
    /\ disk.state = "ok"
    /\ Len(disk.store.Servers) > 0

\* C4: after a successful rotation every record decrypts under the new key to
\* the plaintext it decrypted to under the old key, and the records, their
\* order and their name, user, host and port are unchanged.
C4_RotationPreservesSecrets ==
    [][(cmd' = "passwd" /\ saveCalls' > 0) =>
          LET old == disk.store
              new == mem'.store
              oldKey == VerifyPassword(old, diskPw, NoKeyfile).key
              newKey == VerifyPassword(new, memPw', NoKeyfile).key
          IN  /\ Len(new.Servers) = Len(old.Servers)
              /\ \A i \in 1..Len(old.Servers) :
                    /\ new.Servers[i].Name = old.Servers[i].Name
                    /\ new.Servers[i].User = old.Servers[i].User
                    /\ new.Servers[i].Host = old.Servers[i].Host
                    /\ new.Servers[i].Port = old.Servers[i].Port
                    /\ Decrypt(oldKey, old.Servers[i].EncryptedPassword).err = NoError
                    /\ Decrypt(newKey, new.Servers[i].EncryptedPassword) =
                          Decrypt(oldKey, old.Servers[i].EncryptedPassword)
              /\ res' = NoError => disk'.store.Servers = new.Servers]_vars

\* a rotation of two records with different secrets was saved
C4_Witness ==
    /\ cmd = "passwd"
    /\ res = NoError
    /\ Len(disk.store.Servers) = 2
    /\ disk.store.Servers[1].EncryptedPassword.bytes.pt #
          disk.store.Servers[2].EncryptedPassword.bytes.pt

\* C5: the verification token of every store, in the file or in memory,
\* decrypts to the sentinel under the key derived from that store's salt and
\* its current password.
C5_TokenVerifies ==
    /\ disk.state = "ok" =>
          VerifyPassword(disk.store, diskPw, NoKeyfile).err = NoError
    /\ mem.present => VerifyPassword(mem.store, memPw, NoKeyfile).err = NoError

\* a rotation succeeded in memory and its save failed: the store in memory is
\* under the new password, the file still under the old one
C5_Witness ==
    /\ cmd = "passwd"
    /\ saveCalls > 0
    /\ res # NoError
    /\ disk.state = "ok"
    /\ memPw # diskPw

\* C6: the version of the stored store is the number of successful saves
\* since Init built it at version 0; a successful save stores the loaded
\* version plus one, and no other step changes the stored version.
C6_VersionCountsSaves ==
    /\ [](disk.state = "ok" => disk.store.Version = 0 + nSaves)
    /\ [][/\ (saveCalls' > 0 /\ res' = NoError /\ cmd' # "init") =>
                disk'.store.Version = disk.store.Version + 1
          /\ (disk.state = "ok" /\ disk'.state = "ok" /\ cmd' # "init") =>
                disk'.store.Version >= disk.store.Version
          /\ (disk'.state = "ok" /\ ~(saveCalls' > 0 /\ res' = NoError)) =>
                disk'.store.Version = disk.store.Version]_vars

C6_Witness ==
    /\ disk.state = "ok"
    /\ nSaves = 3
    /\ disk.store.Version = 3
    /\ cmd # "init"

\* C7: a save either replaces the stored store by the new one, or reports
\* failure and leaves the stored store as it was.
C7_SaveAllOrNothing ==
    [][saveCalls' > 0 =>
          \/ res' = NoError /\ disk' = Disk("ok", mem'.store)
          \/ res' # NoError /\ disk' = disk]_vars

\* C8: a store initialized with password P and keyfile kf rejects every other
\* password offered with kf and returns no key; with P it returns the key
\* the token was encrypted under.
C8_OnlyThePasswordVerifies ==
    (answer.op = "verify" /\ probe.intact /\ answer.kf = probe.kf) =>
        /\ answer.pw # probe.pw => answer.err # NoError /\ answer.key = NoKey
        /\ answer.pw = probe.pw =>
              /\ answer.err = NoError
              /\ answer.key = probe.store.Verification.bytes.key
              /\ answer.key = DeriveKey(probe.pw, GetSalt(probe.store).bytes, probe.kf)

\* a store with a keyfile was offered a wrong password with the right keyfile
C8_Witness ==
    /\ answer.op = "verify"
    /\ probe.intact
    /\ probe.kf # NoKeyfile
    /\ answer.kf = probe.kf
    /\ answer.pw \in Passwords
    /\ answer.pw # probe.pw

FailedVerify(a) == a.op = "verify" /\ a.cause \in {"decrypt", "mismatch"}

\* C9: two verifications that fail, one because the token does not decrypt
\* and one because it decrypts to something else than the sentinel, return
\* the same error and the same (absent) key.
C9_VerifyFailsUniformly ==
    (FailedVerify(answer) /\ FailedVerify(prev)) =>
        /\ answer.err # NoError
        /\ answer.err = prev.err
        /\ answer.key = prev.key

C9_Witness ==
    /\ FailedVerify(answer)
    /\ FailedVerify(prev)
    /\ answer.cause = "mismatch"
    /\ prev.cause = "decrypt"

\* C10: Decrypt reports a malformed blob and a failed authentication tag as
\* the same error condition.
C10_DecryptFailsUniformly ==
    (/\ answer.op = "decrypt" /\ prev.op = "decrypt"
     /\ answer.cause \in {"malformed", "tag"}
     /\ prev.cause \in {"malformed", "tag"}) =>
        Head(answer.err) = Head(prev.err)

\* C11: a store protected by password P and a non-empty keyfile K verifies no
\* pair (password, keyfile) other than (P, K); in particular no password that
\* is offered without a keyfile.
C11_BothFactorsRequired ==
    (/\ answer.op = "verify"
     /\ probe.intact
     /\ probe.kf # NoKeyfile
     /\ <<answer.pw, answer.kf>> # <<probe.pw, probe.kf>>) =>
        answer.err # NoError

HasName(store, name) == \E i \in 1..Len(store.Servers) : store.Servers[i].Name = name

\* C12: add fails with DuplicateName and changes nothing when a record with
\* exactly that name is present; otherwise the record is appended at the end
\* and the records before it stay as they were.
C12_AddAppendsOrRejects ==
    op.name = "AddServer" =>
        IF HasName(op.before, op.srv.Name)
        THEN op.err = <<"already exists">> /\ st = op.before
        ELSE /\ op.err = NoError
             /\ Len(st.Servers) = Len(op.before.Servers) + 1
             /\ st.Servers[Len(st.Servers)] = op.srv
             /\ \A i \in 1..Len(op.before.Servers) :
                    st.Servers[i] = op.before.Servers[i]
             /\ st = [op.before EXCEPT !.Servers = st.Servers]

\* "a" is refused in a store that holds "A" and "a"
C12_Witness ==
    /\ op.name = "AddServer"
    /\ op.err # NoError
    /\ op.arg = "a"
    /\ HasName(st, "A")
    /\ Len(st.Servers) = 2

\* C13: remove fails with NotFound and changes nothing when no record has the
\* name; otherwise exactly that record goes and the others keep their order.
C13_RemoveDeletesOneOrRejects ==
    op.name = "RemoveServer" =>
        IF ~HasName(op.before, op.arg)
        THEN op.err = <<"not found">> /\ st = op.before
        ELSE /\ op.err = NoError
             /\ Len(st.Servers) = Len(op.before.Servers) - 1
             /\ st.Servers = SelectSeq(op.before.Servers, LAMBDA r : r.Name # op.arg)
             /\ st = [op.before EXCEPT !.Servers = st.Servers]

\* the first of two records was removed
C13_Witness ==
    /\ op.name = "RemoveServer"
    /\ op.err = NoError
    /\ Len(op.before.Servers) = 2
    /\ op.before.Servers[1].Name = op.arg
    /\ Len(st.Servers) = 1

\* what a successful rename leaves: the record old carries the name new, at
\* its position, and nothing else differs
Renamed(before, after, old, new) ==
    /\ Len(after.Servers) = Len(before.Servers)
    /\ \A i \in 1..Len(before.Servers) :
          after.Servers[i] =
              IF before.Servers[i].Name = old
              THEN [before.Servers[i] EXCEPT !.Name = new]
              ELSE before.Servers[i]
    /\ after = [before EXCEPT !.Servers = after.Servers]

\* C14 as stated: NotFound whenever old is absent, also when new is present;
\* DuplicateName when new is present; no change on failure; on success only
\* the name of the record old changes.
C14_RenameNotFoundFirst ==
    op.name = "RenameServer" =>
        IF ~HasName(op.before, op.arg)
        THEN op.err = <<"not found">> /\ st = op.before
        ELSE IF HasName(op.before, op.arg2)
             THEN op.err = <<"already exists">> /\ st = op.before
             ELSE op.err = NoError /\ Renamed(op.before, st, op.arg, op.arg2)

\* C14 as amended: DuplicateName whenever new is present, also when old is
\* absent; NotFound when old is absent and new is not present; no change on
\* failure; on success only the name of the record old changes.
C14_RenameDuplicateFirst ==
    op.name = "RenameServer" =>
        IF HasName(op.before, op.arg2)
        THEN op.err = <<"already exists">> /\ st = op.before
        ELSE IF ~HasName(op.before, op.arg)
             THEN op.err = <<"not found">> /\ st = op.before
             ELSE op.err = NoError /\ Renamed(op.before, st, op.arg, op.arg2)

\* old is absent and new is present
C14_Witness ==
    /\ op.name = "RenameServer"
    /\ ~HasName(op.before, op.arg)
    /\ HasName(op.before, op.arg2)
    /\ op.err # NoError

UniqueNames(store) ==
    \A i, j \in 1..Len(store.Servers) :
        store.Servers[i].Name = store.Servers[j].Name => i = j

\* C15: no two records of a store have the same name, in the file and in the
\* memory of every command.
C15_NamesUnique ==
    /\ disk.state = "ok" => UniqueNames(disk.store)
    /\ mem.present => UniqueNames(mem.store)

\* a second record was just added and saved
C15_Witness ==
    /\ cmd = "add"
    /\ res = NoError
    /\ disk.state = "ok"
    /\ Len(disk.store.Servers) = 2
    /\ mem.present /\ Len(mem.store.Servers) = 2

\* ---------------------------------------------------- claims about transfers
IsRead(e, k) == e.d = "r" /\ e.k = k

IsSent(e, k) == e.d = "w" /\ e.k = k

\* a write that was attempted, whether or not it returned an error
IsWrite(e, k) == e.d \in {"w", "wfail"} /\ e.k = k

IsAckOk(e) == IsRead(e, "ack") /\ e.n = 0

Count(log, d, k) == Cardinality({i \in 1..Len(log) : log[i].d = d /\ log[i].k = k})

\* C16: in an upload the header "C0644 <size> <basename>\n" is written only
\* after an initial ack of 0, content only after a header ack of 0, the one
\* completion byte only after the content, and the upload is done only after
\* a final ack of 0.
C16_UploadInOrder ==
    scp.dir = "up" =>
        LET log == scp.io
        IN  /\ \A j \in 1..Len(log) :
                /\ IsWrite(log[j], "header") =>
                      /\ j = 2 /\ IsAckOk(log[1])
                      /\ log[j].s[Len(log[j].s)] = "\n"
                      /\ SubSeq(log[j].s, 1, 6) = <<"C", "0", "6", "4", "4", " ">>
                      /\ parseHeader(SubSeq(log[j].s, 1, Len(log[j].s) - 1)) =
                            [err |-> NoError, size |-> scp.file.size, filename |-> <<"f">>]
                /\ IsWrite(log[j], "data") =>
                      /\ j = 4 /\ IsSent(log[2], "header") /\ IsAckOk(log[3])
                /\ IsWrite(log[j], "zero") =>
                      /\ j = 5 /\ IsSent(log[4], "data")
            /\ scp.pc = "done" =>
                /\ Len(log) = 6
                /\ IsSent(log[5], "zero")
                /\ IsAckOk(log[6])
                /\ scp.err = NoError

\* an upload of three bytes is done
C16_Witness ==
    /\ scp.dir = "up"
    /\ scp.pc = "done"
    /\ scp.file.size = 3
    /\ scp.localPath = <<"d", "/", "f">>

\* C17: when an awaited ack of an upload is not 0 the upload fails: the line
\* that follows is read, the error carries the code and that line, nothing is
\* written after the ack and the upload is not done.
C17_UploadAckFailure ==
    scp.dir = "up" =>
        \A j \in 1..Len(scp.io) :
            (IsRead(scp.io[j], "ack") /\ scp.io[j].n \notin {0, EndOfStream}) =>
                /\ scp.pc = "failed"
                /\ Len(scp.io) = j + 1
                /\ IsRead(scp.io[j + 1], "line")
                /\ scp.err # NoError
                /\ scp.err[Len(scp.err)] =
                      "scp error (code " \o ToString(scp.io[j].n) \o "): "
                          \o Str(scp.io[j + 1].s)

\* the header ack is 1, followed by "permission denied"
C17_Witness ==
    /\ scp.dir = "up"
    /\ scp.pc = "failed"
    /\ Len(scp.io) = 4
    /\ IsRead(scp.io[3], "ack") /\ scp.io[3].n = 1
    /\ scp.io[4].s = <<"p", "e", "r", "m", "i", "s", "s", "i", "o", "n", " ", "d", "e", "n", "i", "e", "d">>
    /\ scp.err = <<"header ack", "scp error (code 1): permission denied">>

\* C18: in a download the request byte is written first, the header ack only
\* after a header line was read and parsed, then size bytes are read into the
\* destination, one trailing byte is read, and the final ack is written; a
\* download that is done wrote three zero bytes to the channel and size bytes
\* to the destination.
C18_DownloadInOrder ==
    scp.dir = "down" =>
        LET log == scp.io
        IN  /\ \A j \in 1..Len(log) :
                /\ IsWrite(log[j], "zero") => j \in {1, 3, 6}
                /\ (IsWrite(log[j], "zero") /\ j = 3) =>
                      /\ IsRead(log[2], "line") /\ log[2].n = 1
                      /\ parseHeader(log[2].s).err = NoError
                /\ IsRead(log[j], "data") => j = 4 /\ IsSent(log[3], "zero")
                /\ IsRead(log[j], "byte") => j = 5 /\ IsRead(log[4], "data")
                /\ (IsWrite(log[j], "zero") /\ j = 6) => IsRead(log[5], "byte")
            /\ scp.pc = "done" =>
                /\ Count(log, "w", "zero") = 3
                /\ Len(log) = 6
                /\ log[4].n = parseHeader(log[2].s).size
                /\ scp.received = parseHeader(log[2].s).size

Compose(mode, n, name) == mode \o <<" ">> \o FormatInt(n) \o <<" ">> \o name

SpaceCount(str) == Cardinality({i \in 1..Len(str) : str[i] = " "})

\* the text between the first and the second space
SizeField(str) ==
    LET rest == SubSeq(str, Index(str, " ") + 1, Len(str))
    IN  SubSeq(rest, 1, Index(rest, " ") - 1)

HeaderRejected ==
    /\ scp.pc = "failed"
    /\ Len(scp.io) = 2
    /\ ~scp.created

\* C19: a header line "C<mode> <size> <filename>" gives the decimal size and
\* the filename; a line with fewer than three fields separated by spaces, or
\* with a size that is not a number, is malformed and the download fails.
C19_HeaderParsing ==
    (scp.dir = "down" /\ Len(scp.io) >= 2 /\ scp.io[2].n = 1) =>
        LET h == scp.io[2].s
        IN  /\ \A n \in {0, 3, 12345},
                  name \in {<<"f", "i", "l", "e", ".", "t", "x", "t">>, <<"f">>, <<"e">>, <<"a", " ", "b">>} :
                  h = Compose(<<"C", "0", "6", "4", "4">>, n, name) =>
                      /\ scp.size = n
                      /\ scp.filename = name
                      /\ ~HeaderRejected
            /\ (Len(h) > 0 /\ h[1] = "C" /\ SpaceCount(h) < 2) =>
                  /\ HeaderRejected
                  /\ scp.err = <<"invalid scp header: " \o Quote(h)>>
            /\ (Len(h) > 0 /\ h[1] = "C" /\ SpaceCount(h) >= 2
                  /\ \E i \in 1..Len(SizeField(h)) : ~IsDigit(SizeField(h)[i])
                  /\ SizeField(h)[1] \notin {"+", "-"}) =>
                  /\ HeaderRejected
                  /\ Head(scp.err) = "invalid size in header"

\* "C0644 12345 file.txt" was read and the content is awaited
C19_Witness ==
    /\ scp.dir = "down"
    /\ scp.pc = "content"
    /\ scp.io[2].s = <<"C", "0", "6", "4", "4", " ", "1", "2", "3", "4", "5", " ", "f", "i", "l", "e", ".", "t", "x", "t">>
    /\ scp.size = 12345
    /\ scp.filename = <<"f", "i", "l", "e", ".", "t", "x", "t">>

\* C20: a download whose header announces a negative size fails and is never
\* done.
C20_NegativeSizeIsFatal ==
    (/\ scp.dir = "down"
     /\ Len(scp.io) >= 2
     /\ scp.io[2].n = 1
     /\ scp.io[2].s = <<"C", "0", "6", "4", "4", " ", "-", "5", " ", "f">>) =>
        scp.pc # "done"

\* C21: a download whose destination is an existing directory creates the
\* file at that directory joined with the filename of the header; any other
\* destination is used verbatim, and a file that exists there is truncated
\* and written.
C21_DestinationPolicy ==
    (scp.dir = "down" /\ scp.pc \in {"content", "trailing", "done"}) =>
        /\ scp.created
        /\ scp.filename = parseHeader(scp.io[2].s).filename
        /\ scp.target = IF scp.dest.kind = "dir"
                        THEN scp.dest.path \o <<"/">> \o scp.filename
                        ELSE scp.dest.path
        /\ scp.pc = "done" => scp.received = scp.io[4].n

\* "file.txt" went into the directory d
C21_Witness ==
    /\ scp.dir = "down"
    /\ scp.pc = "done"
    /\ scp.dest.kind = "dir"
    /\ scp.target = <<"d", "/", "f", "i", "l", "e", ".", "t", "x", "t">>
    /\ scp.received = 12345

\* C24: init in a directory that holds a storage file with records leaves
\* those records in the file.
C24_InitKeepsExistingStore ==
    [][(/\ cmd' = "init"
        /\ res' = NoError
        /\ disk.state = "ok"
        /\ Len(disk.store.Servers) > 0) =>
            /\ disk'.state = "ok"
            /\ disk'.store.Servers = disk.store.Servers]_vars

\* C26 as stated: the store that initialize leaves has no records, version 0,
\* a decodable salt, and a token that decrypts to the sentinel under the key
\* derived from the password, that salt and the keyfile.
C26_InitVersionZero ==
    (probe.made /\ probe.intact) =>
        /\ probe.store.Servers = <<>>
        /\ probe.store.Version = 0
        /\ GetSalt(probe.store).err = NoError
        /\ GetSalt(probe.store).bytes \in Salts
        /\ Decrypt(DeriveKey(probe.pw, GetSalt(probe.store).bytes, probe.kf),
                   probe.store.Verification) = [err |-> NoError, val |-> VerifyStr]

\* C26 as amended: the same, with the version 1 of the one save that
\* initialize makes.
C26_InitVersionOne ==
    (probe.made /\ probe.intact) =>
        /\ probe.store.Servers = <<>>
        /\ probe.store.Version = 1
        /\ GetSalt(probe.store).err = NoError
        /\ GetSalt(probe.store).bytes \in Salts
        /\ Decrypt(DeriveKey(probe.pw, GetSalt(probe.store).bytes, probe.kf),
                   probe.store.Verification) = [err |-> NoError, val |-> VerifyStr]

\* a store initialized with the longer password and a keyfile
C26_Witness ==
    /\ probe.made
    /\ probe.intact
    /\ probe.pw = <<1, 2>>
    /\ probe.kf # NoKeyfile
    /\ answer.op = "none"

\* a read that met the end of the stream
MetEnd(e, size) ==
    /\ e.d = "r"
    /\ \/ e.k \in {"ack", "byte"} /\ e.n = EndOfStream
       \/ e.k = "line" /\ e.n = 0
       \/ e.k = "data" /\ e.n < size

\* C29: a transfer that meets the end of the stream while it waits for an ack
\* byte, an error-message line, a header line, file content or the trailing
\* byte fails with the error of the channel, not with an scp error that
\* carries an ack code.
C29_ClosedChannelIsIoFailure ==
    \A j \in 1..Len(scp.io) :
        MetEnd(scp.io[j], scp.size) =>
            /\ scp.pc = "failed"
            /\ scp.err # NoError
            /\ scp.err[Len(scp.err)] = "EOF"

\* C30: add, remove, rename and edit, whether their save succeeds or fails,
\* leave the salt and the verification token of the store as loaded, in
\* memory and in the file they write.
C30_SaltAndTokenFixed ==
    [][cmd' \in {"add", "remove", "rename", "edit"} =>
          /\ mem'.present =>
                /\ disk.state = "ok"
                /\ mem'.store.Salt = disk.store.Salt
                /\ mem'.store.Verification = disk.store.Verification
          /\ disk'.state = "ok" =>
                /\ disk.state = "ok"
                /\ disk'.store.Salt = disk.store.Salt
                /\ disk'.store.Verification = disk.store.Verification]_vars

\* an edit of a record was saved
C30_Witness ==
    /\ cmd = "edit"
    /\ res = NoError
    /\ saveCalls = 1
    /\ disk.state = "ok"
    /\ disk.store.Version >= 3

\* ------------------------------------------ claims about commands and inputs
\* the 0-based index of the first colon of arg, -1 when it has none
FirstColon(arg) ==
    LET colons == {i \in 1..Len(arg) : arg[i] = ":"}
    IN  IF colons = {} THEN 0 - 1
        ELSE (CHOOSE i \in colons : \A j \in colons : i <= j) - 1

StartsLocal(arg) ==
    \/ Len(arg) >= 1 /\ arg[1] = "/"
    \/ Len(arg) >= 2 /\ arg[1] = "." /\ arg[2] = "/"
    \/ Len(arg) >= 3 /\ arg[1] = "." /\ arg[2] = "." /\ arg[3] = "/"

IsRemote(arg) == ~StartsLocal(arg) /\ FirstColon(arg) >= 1

C23_ExactlyOneRemote ==
    call.cmd = "scp" =>
        /\ IsRemote(call.src) = IsRemote(call.dst) =>
              /\ res \in {ErrBothRemote, ErrNoneRemote}
              /\ call.steps = <<>>
              /\ ~mem.present
              /\ scp = NoTransfer
        /\ scp.dir # "none" =>
              /\ IsRemote(call.src) # IsRemote(call.dst)
              /\ scp.dir = IF IsRemote(call.src) THEN "down" ELSE "up"
              /\ call.steps = <<"config", "load", "password", "dial", "transfer">>
        /\ scp.dir = "none" => (call.steps = <<>> \/ call.steps[Len(call.steps)] # "transfer")

\* a download from server a waits for the header
C23_Witness ==
    /\ call.cmd = "scp"
    /\ call.src = <<"a", ":", "/", "e">>
    /\ call.dst = <<"f">>
    /\ scp.dir = "down"
    /\ scp.pc = "header"

\* C25: remove and passwd change and save nothing unless the password typed
\* in that invocation verified against the store that was loaded.
C25_RemoveAndPasswdVerify ==
    [][(/\ call'.cmd \in {"remove", "passwd"}
        /\ \/ saveCalls' > 0
           \/ disk' # disk
           \/ mem'.present /\ mem'.store # disk.store) =>
            /\ disk.state = "ok"
            /\ VerifyPassword(disk.store, call'.encPassword, NoKeyfile).err = NoError]_vars

\* a record was removed and the store saved
C25_Witness ==
    /\ call.cmd = "remove"
    /\ res = NoError
    /\ saveCalls = 1
    /\ disk.state = "ok"
    /\ Len(disk.store.Servers) = 1

\* C27: every record of the storage file has a positive port, and add with a
\* target without a port stores 22.
C27_PortsPositive ==
    /\ disk.state = "ok" =>
          \A i \in 1..Len(disk.store.Servers) : disk.store.Servers[i].Port > 0
    /\ (call.cmd = "add" /\ res = NoError /\ FirstColon(call.target) < 0) =>
          disk.store.Servers[Len(disk.store.Servers)].Port = 22

\* what edit may do to the store it loaded
EditFrame(before, after, name, form, key) ==
    /\ Len(after.Servers) = Len(before.Servers)
    /\ \A i \in 1..Len(before.Servers) :
          LET b == before.Servers[i]
              a == after.Servers[i]
          IN  /\ a.Name = b.Name
              /\ b.Name # name => a = b
              /\ a.User # b.User => (form.user # <<>> /\ a.User = form.user)
              /\ a.Host # b.Host => (form.host # <<>> /\ a.Host = form.host)
              /\ a.Port # b.Port => (form.port # <<>> /\ FormatInt(a.Port) = form.port)
              /\ a.EncryptedPassword # b.EncryptedPassword =>
                    /\ form.secret # ""
                    /\ Decrypt(key, a.EncryptedPassword) =
                          [err |-> NoError, val |-> form.secret]

C32_ContentMatchesHeader ==
    scp.dir = "up" =>
        \A i, j \in 1..Len(scp.io) :
            (IsSent(scp.io[j], "header") /\ IsSent(scp.io[i], "data")) =>
                /\ j < i
                /\ scp.io[i].n =
                      parseHeader(SubSeq(scp.io[j].s, 1, Len(scp.io[j].s) - 1)).size

\* a header line that Download cannot use: cut by the end of the stream,
\* empty, not starting with C, or refused by parseHeader
HeaderUnusable(e) ==
    \/ e.n = 0
    \/ Len(e.s) = 0
    \/ e.s[1] # "C"
    \/ parseHeader(e.s).err # NoError

\* C33: a download that cannot read its header line, or reads one that does
\* not start with C or does not parse, fails without sending a header ack and
\* without creating or truncating the destination; the destination is
\* created only after a usable header and the ack of it.
C33_NoTouchBeforeHeader ==
    scp.dir = "down" =>
        /\ (Len(scp.io) >= 2 /\ HeaderUnusable(scp.io[2])) =>
              /\ scp.pc = "failed"
              /\ Len(scp.io) = 2
              /\ ~scp.created
        /\ scp.created =>
              /\ Len(scp.io) >= 3
              /\ IsRead(scp.io[2], "line")
              /\ ~HeaderUnusable(scp.io[2])
              /\ IsSent(scp.io[3], "zero")

\* the header "C0644 x f" was read and refused
C33_Witness ==
    /\ scp.dir = "down"
    /\ scp.pc = "failed"
    /\ Len(scp.io) = 2
    /\ scp.io[2].s = <<"C", "0", "6", "4", "4", " ", "x", " ", "f">>
    /\ scp.io[2].n = 1
    /\ ~scp.created

\* path p names something below the directory d
Inside(p, d) ==
    /\ Len(p) > Len(d) + 1
    /\ HasPrefix(p, d \o <<"/">>)
    /\ \A i \in 1..(Len(p) - 1) : ~(p[i] = "." /\ p[i + 1] = ".")

\* C34: a download into an existing directory creates or overwrites a file
\* inside that directory, whatever filename the header carries.
C34_StaysInsideDirectory ==
    (scp.dir = "down" /\ scp.dest.kind = "dir" /\ scp.created) =>
        Inside(scp.target, scp.dest.path)

\* how far a transfer has come
Position(t) ==
    IF t.pc \in {"initial_ack", "header"} THEN 1
    ELSE IF t.pc \in {"header_ack", "content"} THEN 2
    ELSE IF t.pc \in {"final_ack", "trailing"} THEN 3
    ELSE IF t.pc \in {"done", "failed"} THEN 4
    ELSE 0

TokenKeys(store) ==
    {key \in {DeriveKey(pw, salt, NoKeyfile) : pw \in Passwords, salt \in Salts} :
        Decrypt(key, store.Verification) = [err |-> NoError, val |-> VerifyStr]}

KeyConsistent(store) ==
    /\ TokenKeys(store) # {}
    /\ \A key \in TokenKeys(store) :
          \A i \in 1..Len(store.Servers) :
              Decrypt(key, store.Servers[i].EncryptedPassword).err = NoError

\* C36: in every readable storage file that init, add, edit, remove, rename
\* and passwd leave, also when two invocations load before either saves,
\* every record's encrypted_secret decrypts under the key that decrypts the
\* file's verification token to the sentinel.
C36_OneKeyPerFile ==
    disk.state = "ok" => KeyConsistent(disk.store)

\* a rotation that loaded before an add was saved has overwritten the file
\* that add wrote
C36_Witness ==
    /\ disk.state = "ok"
    /\ run.last = "passwd"
    /\ run.stale
    /\ run.other = "add"
    /\ disk.store.Servers = <<>>
    /\ DeriveKey(<<1, 2>>, 2, NoKeyfile) \in TokenKeys(disk.store)

====
